---- MODULE Spec2Model ----
(***************************************************************************)
(* A model of swddude's protocol stack:                                    *)
(*   - the MPSSE SWD transport (MPSSESWDDriver::read / write),             *)
(*   - the Debug Access Port wrapper with its SELECT cache,                *)
(*   - the Target facade (memory, core registers, reset-and-halt).         *)
(* Each layer has its own specification over the shared variables:         *)
(* SpecSWD, SpecDAP, SpecTarget (single-word and register calls) and       *)
(* SpecBulk (read_words / write_words).  SpecHost is the semihosting host  *)
(* of swdhost on top of the Target facade.  SpecProc follows one run of a  *)
(* tool as a process (terminal, signals, USB resources).  SpecFn applies   *)
(* the helper functions (swd_parity, rptr arithmetic and comparison,       *)
(* fix_lpc_checksum, program_flash's block loop) to inputs drawn from      *)
(* bounded sets.                                                           *)
(*                                                                         *)
(* A 32-bit word is a pair <<hi, lo>> of 16-bit halves, so that values     *)
(* such as 0xE000EDF0 or 0xFFFFFFFF keep their full width.                 *)
(***************************************************************************)
EXTENDS Integers, Sequences, FiniteSets, TLC

VARIABLES
    pins,       \* SWD: last pin state commanded to the adapter
    swdOp,      \* SWD: the last transaction (its inputs, the wire, its result)
    dSELECT,    \* DAP: DebugAccessPort::_SELECT, the cached SELECT value
    dTgt,       \* DAP: the target's DP/AP as seen through the SWD driver
    dOp,        \* DAP: the last DAP call (inputs, SWD log, result)
    dScen,      \* DAP: progress of the posted-read scenario
    tHost,      \* Target: Target::_current_ap_bank
    tTgt,       \* Target: the target's DP, MEM-AP, memory and core
    tOp,        \* Target: the last Target call (inputs, SWD log, result)
    fnOp,       \* the last call of a helper function (arguments and result)
    proc        \* a tool process: where it is, the terminal, its USB resources

vars ==
    <<pins, swdOp, dSELECT, dTgt, dOp, dScen, tHost, tTgt, tOp, fnOp, proc>>
swdVars == <<pins, swdOp>>
dapVars == <<dSELECT, dTgt, dOp, dScen>>
tgtVars == <<tHost, tTgt, tOp>>
fnVars == <<fnOp>>
procVars == <<proc>>

----------------------------------------------------------------------------
(* 32-bit words as <<hi, lo>>.                                             *)

Half == 256 * 256

W(h, l) == <<h, l>>
Hi(w) == w[1]
Lo(w) == w[2]

RECURSIVE BitAnd(_, _)
BitAnd(a, b) ==
    IF a = 0 \/ b = 0 THEN 0
    ELSE (a % 2) * (b % 2) + 2 * BitAnd(a \div 2, b \div 2)

RECURSIVE BitXor(_, _)
BitXor(a, b) ==
    IF a = 0 THEN b
    ELSE IF b = 0 THEN a
    ELSE ((a + b) % 2) + 2 * BitXor(a \div 2, b \div 2)

BitOr(a, b) == a + b - BitAnd(a, b)

And32(x, y) == W(BitAnd(Hi(x), Hi(y)), BitAnd(Lo(x), Lo(y)))
Or32(x, y)  == W(BitOr(Hi(x), Hi(y)), BitOr(Lo(x), Lo(y)))
Xor32(x, y) == W(BitXor(Hi(x), Hi(y)), BitXor(Lo(x), Lo(y)))

RECURSIVE Pow2(_)
Pow2(n) == IF n = 0 THEN 1 ELSE 2 * Pow2(n - 1)

\* x >> n for 0 <= n <= 16 on a 32-bit word.
Shr32(x, n) ==
    W(Hi(x) \div Pow2(n),
      (Lo(x) \div Pow2(n)) + (Hi(x) % Pow2(n)) * Pow2(16 - n))

\* x + y modulo 2^32.
Add32(x, y) ==
    LET l == Lo(x) + Lo(y)
    IN  W((Hi(x) + Hi(y) + (l \div Half)) % Half, l % Half)

\* Bit k (0..31) of a word.
Bit32(x, k) ==
    IF k < 16 THEN (Lo(x) \div Pow2(k)) % 2 ELSE (Hi(x) \div Pow2(k - 16)) % 2

Zero32 == W(0, 0)

----------------------------------------------------------------------------
(* SWD transport: MPSSESWDDriver (the MPSSE bit-banging driver).           *)

success        == "success"
try_again      == "try_again"
failure        == "failure"
timeout        == "timeout"
argument_error == "argument_error"

\* swd_request with the parity taken over APnDP and RnW only.
swd_request_ParityIgnoresAddress(address, debug_port, write) ==
    1 + (IF debug_port THEN 0 ELSE 2) + (IF write THEN 0 ELSE 4)
      + (address % 4) * 8 + 128
      + (IF debug_port # write THEN 32 ELSE 0)

\* swd_request: the 8-bit request header.
swd_request(address, debug_port, write) ==
    LET parity0 == IF debug_port # write THEN 1 ELSE 0
        a       == address % 4
        parity  == IF a = 1 \/ a = 2 THEN 1 - parity0 ELSE parity0
    IN  1                                   \* swd_header_start
        + (IF debug_port THEN 0 ELSE 2)     \* swd_header_dp / swd_header_ap
        + (IF write THEN 0 ELSE 4)          \* swd_header_write / _read
        + a * 8
        + 128                               \* swd_header_park
        + (IF parity = 1 THEN 32 ELSE 0)    \* swd_header_parity

\* swd_parity without its first fold: the top half never reaches bit 0.
swd_parity_NoFold16(data) ==
    LET s8 == Xor32(data, Shr32(data, 8))
        s4 == Xor32(s8, Shr32(s8, 4))
        s2 == Xor32(s4, Shr32(s4, 2))
        s1 == Xor32(s2, Shr32(s2, 1))
    IN  Lo(s1) % 2

\* swd_parity: fold the word onto its bit 0 by xor-shifting.
swd_parity(data) ==
    LET s16 == Xor32(data, Shr32(data, 16))
        s8  == Xor32(s16, Shr32(s16, 8))
        s4  == Xor32(s8, Shr32(s8, 4))
        s2  == Xor32(s4, Shr32(s4, 2))
        s1  == Xor32(s2, Shr32(s2, 1))
    IN  Lo(s1) % 2

\* A plausible slip: FAULT (4) reported as a retriable WAIT.
swd_response_to_error_FaultRetries(response) ==
    CASE response = 1 -> success
      [] response = 2 -> try_again
      [] response = 4 -> try_again
      [] OTHER        -> failure

swd_response_to_error(response) ==
    CASE response = 1 -> success
      [] response = 2 -> try_again
      [] response = 4 -> failure
      [] OTHER        -> failure

\* Inputs of the transport model.
SwdAddresses == 0 .. 3
AckBits      == 0 .. 7
\* response[0] carries the ACK in its top three bits; the low five are noise.
AckBytes     == {a * 32 : a \in AckBits} \cup {63}
\* Words on the wire: 0 (even parity) and 0x0BB11477 (odd parity).
WireWords    == { W(0, 0), W(2993, 5239) }
\* The k-th USB I/O call of the transaction fails (0: none does).
MaxUsbCalls  == 5

PinStates == {"idle_write", "idle_read", "reset_target", "reset_swd"}

NoSwdOp == [kind |-> "none"]

\* MPSSESWDDriver::read.  in.usbFail = k makes the k-th mpsse_write/mpsse_read
\* call of this transaction fail; a failed write commands nothing.
SwdReadResult(p, in) ==
    LET header == swd_request(in.address, in.debug_port, FALSE)
        ack    == in.r0 \div 32
        base   == [kind |-> "read", in |-> in, header |-> header, ack |-> ack,
                   headerSent |-> FALSE, dataPhase |-> FALSE,
                   data |-> Zero32, stored |-> FALSE, ret |-> "none"]
    IN  IF in.usbFail = 1
        THEN [pins |-> p, op |-> [base EXCEPT !.ret = failure]]
        ELSE IF in.usbFail = 2
        THEN [pins |-> "idle_read",
              op |-> [base EXCEPT !.headerSent = TRUE, !.ret = timeout]]
        ELSE IF ack = 1
        THEN IF in.usbFail = 3
             THEN [pins |-> "idle_read",
                   op |-> [base EXCEPT !.headerSent = TRUE, !.ret = failure]]
             ELSE IF in.usbFail = 4
             THEN [pins |-> "idle_read",
                   op |-> [base EXCEPT !.headerSent = TRUE, !.dataPhase = TRUE,
                                       !.ret = timeout]]
             ELSE IF in.parityBit # swd_parity(in.word)
             THEN [pins |-> "idle_read",
                   op |-> [base EXCEPT !.headerSent = TRUE, !.dataPhase = TRUE,
                                       !.ret = failure]]
             ELSE IF in.usbFail = 5
             THEN [pins |-> "idle_read",
                   op |-> [base EXCEPT !.headerSent = TRUE, !.dataPhase = TRUE,
                                       !.data = in.word, !.stored = TRUE,
                                       !.ret = failure]]
             ELSE [pins |-> "idle_write",
                   op |-> [base EXCEPT !.headerSent = TRUE, !.dataPhase = TRUE,
                                       !.data = in.word, !.stored = TRUE,
                                       !.ret = swd_response_to_error(ack)]]
        ELSE IF in.usbFail = 3
        THEN [pins |-> "idle_read",
              op |-> [base EXCEPT !.headerSent = TRUE, !.ret = failure]]
        ELSE [pins |-> "idle_write",
              op |-> [base EXCEPT !.headerSent = TRUE,
                                  !.ret = swd_response_to_error(ack)]]

\* A write that sends data_commands whatever the ACK is.
SwdWriteResult_DataAlways(p, in) ==
    LET header == swd_request(in.address, in.debug_port, TRUE)
        ack    == in.r0 \div 32
        base   == [kind |-> "write", in |-> in, header |-> header, ack |-> ack,
                   headerSent |-> FALSE, dataIssued |-> FALSE,
                   dataPhase |-> FALSE,
                   data |-> in.word, stored |-> FALSE, ret |-> "none"]
    IN  IF in.usbFail = 1
        THEN [pins |-> p, op |-> [base EXCEPT !.ret = failure]]
        ELSE IF in.usbFail = 2
        THEN [pins |-> "idle_write",
              op |-> [base EXCEPT !.headerSent = TRUE, !.ret = timeout]]
        ELSE IF in.usbFail = 3
        THEN [pins |-> "idle_write",
              op |-> [base EXCEPT !.headerSent = TRUE, !.dataIssued = TRUE,
                                  !.ret = failure]]
        ELSE [pins |-> "idle_write",
              op |-> [base EXCEPT !.headerSent = TRUE, !.dataIssued = TRUE,
                                  !.dataPhase = TRUE,
                                  !.ret = swd_response_to_error(ack)]]

\* MPSSESWDDriver::write.  The request buffer already turns the line back to
\* idle_write, before the ACK is even looked at.  data_commands is handed to
\* mpsse_write (dataIssued) when the ACK read is 1, and has gone out
\* (dataPhase) when that call succeeds.
SwdWriteResult(p, in) ==
    LET header == swd_request(in.address, in.debug_port, TRUE)
        ack    == in.r0 \div 32
        base   == [kind |-> "write", in |-> in, header |-> header, ack |-> ack,
                   headerSent |-> FALSE, dataIssued |-> FALSE,
                   dataPhase |-> FALSE,
                   data |-> in.word, stored |-> FALSE, ret |-> "none"]
    IN  IF in.usbFail = 1
        THEN [pins |-> p, op |-> [base EXCEPT !.ret = failure]]
        ELSE IF in.usbFail = 2
        THEN [pins |-> "idle_write",
              op |-> [base EXCEPT !.headerSent = TRUE, !.ret = timeout]]
        ELSE IF ack = 1
        THEN IF in.usbFail = 3
             THEN [pins |-> "idle_write",
                   op |-> [base EXCEPT !.headerSent = TRUE,
                                       !.dataIssued = TRUE, !.ret = failure]]
             ELSE [pins |-> "idle_write",
                   op |-> [base EXCEPT !.headerSent = TRUE,
                                       !.dataIssued = TRUE, !.dataPhase = TRUE,
                                       !.ret = swd_response_to_error(ack)]]
        ELSE [pins |-> "idle_write",
              op |-> [base EXCEPT !.headerSent = TRUE,
                                  !.ret = swd_response_to_error(ack)]]

\* The inputs of a transaction: the register, the byte that carries the ACK,
\* which USB call fails, and the data phase the target drives on a read.  An
\* input the code never looks at is held at zero, so that no two states differ
\* only in it: the data phase exists only after ACK = OK and only once the
\* request went through.
SwdReadInputs ==
    { in \in [address : SwdAddresses, debug_port : BOOLEAN, r0 : AckBytes,
              usbFail : 0 .. MaxUsbCalls, word : WireWords, parityBit : 0 .. 1] :
        IF in.r0 \div 32 = 1 /\ in.usbFail \notin {1, 2}
        THEN TRUE
        ELSE in.word = Zero32 /\ in.parityBit = 0 /\ in.usbFail <= 3 }

SwdWriteInputs ==
    { in \in [address : SwdAddresses, debug_port : BOOLEAN, r0 : AckBytes,
              usbFail : 0 .. MaxUsbCalls, word : WireWords] :
        in.usbFail <= (IF in.r0 \div 32 = 1 THEN 3 ELSE 2) }

SwdRead ==
    \E in \in SwdReadInputs :
        LET r == SwdReadResult(pins, in)
        IN  /\ pins' = r.pins
            /\ swdOp' = r.op
            /\ UNCHANGED <<dapVars, tgtVars, fnVars, procVars>>

SwdWrite ==
    \E in \in SwdWriteInputs :
        LET r == SwdWriteResult(pins, in)
        IN  /\ pins' = r.pins
            /\ swdOp' = r.op
            /\ UNCHANGED <<dapVars, tgtVars, fnVars, procVars>>

\* MPSSESWDDriver::enter_reset / leave_reset.
SwdEnterReset ==
    /\ \E ok \in BOOLEAN :
        /\ pins' = IF ok THEN "reset_target" ELSE pins
        /\ swdOp' = [kind |-> "enter_reset", ret |-> IF ok THEN success ELSE failure]
    /\ UNCHANGED <<dapVars, tgtVars, fnVars, procVars>>

SwdLeaveReset ==
    /\ \E ok \in BOOLEAN :
        /\ pins' = IF ok THEN "idle_write" ELSE pins
        /\ swdOp' = [kind |-> "leave_reset", ret |-> IF ok THEN success ELSE failure]
    /\ UNCHANGED <<dapVars, tgtVars, fnVars, procVars>>

SwdInit ==
    /\ pins = "idle_write"
    /\ swdOp = NoSwdOp

SwdNext == SwdRead \/ SwdWrite \/ SwdEnterReset \/ SwdLeaveReset

\* Bit k of a request header.
HeaderBit(h, k) == (h \div Pow2(k)) % 2

\* C25: for every address in 0..3, both ports and both directions, the
\* request header is an 8-bit value with Start (bit 0) = 1 and Park (bit 7)
\* = 1 whose parity bit (bit 5) is the XOR of its APnDP (bit 1), RnW (bit 2),
\* A2 (bit 3) and A3 (bit 4) bits, and those four bits are the ones asked for.
C25_RequestHeader ==
    swdOp.kind \in {"read", "write"} =>
        LET h == swdOp.header
        IN  /\ h \in 0 .. 255
            /\ HeaderBit(h, 0) = 1
            /\ HeaderBit(h, 7) = 1
            /\ HeaderBit(h, 5) =
                 (HeaderBit(h, 1) + HeaderBit(h, 2)
                    + HeaderBit(h, 3) + HeaderBit(h, 4)) % 2
            /\ HeaderBit(h, 1) = (IF swdOp.in.debug_port THEN 0 ELSE 1)
            /\ HeaderBit(h, 2) = (IF swdOp.kind = "read" THEN 1 ELSE 0)
            /\ HeaderBit(h, 3) + 2 * HeaderBit(h, 4) = swdOp.in.address

\* A write of DP register 2 (SELECT) went out under the header 0xB1: only A3
\* is set among the four covered bits, so the parity bit is 1.
C25_Witness ==
    /\ swdOp.kind = "write" /\ swdOp.in.debug_port /\ swdOp.in.address = 2
    /\ swdOp.header = 177

\* The transaction's USB calls all went through and, on a read that reached
\* the data phase, the parity bit received matches the word.
SwdCleanTransaction ==
    /\ swdOp.kind \in {"read", "write"}
    /\ swdOp.in.usbFail = 0
    /\ (swdOp.kind = "read" /\ swdOp.ack = 1
            => swdOp.in.parityBit = swd_parity(swdOp.in.word))

\* C1: when the USB I/O succeeds (and a read's data parity is good), the
\* result of a read or a write is a function of the 3-bit ACK alone: 1 gives
\* Success, 2 gives Retry, 4 and every other pattern give Failure, and reads
\* and writes map alike.
C1_AckDeterminesResult ==
    SwdCleanTransaction =>
        swdOp.ret = (IF swdOp.ack = 1 THEN success
                     ELSE IF swdOp.ack = 2 THEN try_again
                     ELSE failure)

\* A read that the target answers with FAULT, all USB calls succeeding.
C1_Witness ==
    /\ SwdCleanTransaction
    /\ swdOp.kind = "read"
    /\ swdOp.ack = 4
    /\ swdOp.ret = failure

\* The failures raised after the request header went out: an ACK other than
\* OK or WAIT, a data parity mismatch, a USB read that times out.
SwdPostHeaderFailure ==
    /\ swdOp.kind \in {"read", "write"}
    /\ swdOp.headerSent
    /\ \/ swdOp.in.usbFail = 0 /\ swdOp.ack \notin {1, 2}
       \/ /\ swdOp.kind = "read" /\ swdOp.in.usbFail = 0 /\ swdOp.ack = 1
          /\ swdOp.in.parityBit # swd_parity(swdOp.in.word)
       \/ swdOp.ret = timeout

\* C5: a read or write that returns Success, or a failure raised after the
\* request header was sent, leaves idle_write as the last pin state commanded.
C5_ReturnsInIdleWrite ==
    (swdOp.kind \in {"read", "write"}
        /\ (swdOp.ret = success \/ SwdPostHeaderFailure))
    => pins = "idle_write"

\* The ACK of the write was read from the adapter: the request went out and
\* the response came back.
SwdAckRead == swdOp.kind = "write" /\ swdOp.in.usbFail \notin {1, 2}

\* C33: in a write the data phase (the 32 data bits and the parity bit) is
\* sent if and only if the ACK read is OK: with WAIT, FAULT or any other
\* pattern no data bit is clocked out, and none is without an ACK.
C33_DataPhaseIffOk ==
    swdOp.kind = "write" =>
        /\ swdOp.dataIssued <=> (SwdAckRead /\ swdOp.ack = 1)
        /\ swdOp.dataPhase => swdOp.dataIssued
        /\ (swdOp.dataIssued /\ swdOp.in.usbFail = 0) => swdOp.dataPhase

\* A write answered with WAIT: it returns try_again and no data went out.
C33_Witness ==
    /\ SwdAckRead /\ swdOp.in.usbFail = 0
    /\ swdOp.ack = 2
    /\ swdOp.ret = try_again
    /\ ~swdOp.dataIssued /\ ~swdOp.dataPhase


----------------------------------------------------------------------------
(* Debug Access Port: DebugAccessPort over an SWDDriver.                   *)
(* A DAP call is one action; the ACKs the target gives to its SWD          *)
(* transactions are drawn as a script, consumed one per transaction.       *)

kRegABORT    == 0
kRegIDCODE   == 0
kRegCTRLSTAT == 1
kRegSELECT   == 2
kRegRESEND   == 2
kRegRDBUFF   == 3

AckOK    == 1
AckWAIT  == 2
AckFAULT == 4

AllOnes32 == W(65535, 65535)
IdCode    == W(2993, 5239)

\* The result of the k-th AP read the target performs in register addr of ap:
\* a token that tells the reads apart.
ApReadValue(ap, addr, k) == W(ap * 256 + addr, k)

\* The AP and register the target's SELECT and a 2-bit SWD address name.
\* t.select is the sequence of the one value last written to SELECT, empty
\* while nothing has been written (SELECT then holds its reset value, 0).
TgtSelect(t)  == IF t.select = <<>> THEN Zero32 ELSE t.select[1]
TgtAp(t)      == Hi(TgtSelect(t)) \div 256
TgtBank(t)    == BitAnd(Lo(TgtSelect(t)), 240)
TgtCtrlSel(t) == Lo(TgtSelect(t)) % 2

\* The target's side of one SWD transaction that it acknowledges with OK.
\* AP reads are posted: the read returns what RDBUFF holds (the previous AP
\* read's result) and its own result replaces it.
TgtWrite(t, addr, dp, data) ==
    IF dp
    THEN CASE addr = kRegSELECT   -> [t EXCEPT !.select = <<data>>]
           [] addr = kRegABORT    ->       \* bits 4:1 clear the sticky flags
                IF BitAnd(Lo(data), 30) # 0 THEN [t EXCEPT !.sticky = FALSE]
                                            ELSE t
           [] addr = kRegCTRLSTAT ->
                IF TgtCtrlSel(t) = 0 THEN [t EXCEPT !.ctrlstat = data]
                                     ELSE [t EXCEPT !.wcr = data]
           [] OTHER               -> t
    ELSE t

TgtReadValue(t, addr, dp) ==
    IF dp
    THEN CASE addr = kRegIDCODE   -> IdCode
           [] addr = kRegCTRLSTAT -> IF TgtCtrlSel(t) = 0 THEN t.ctrlstat ELSE t.wcr
           [] addr = kRegRESEND   -> t.rdbuff
           [] OTHER               -> t.rdbuff
    ELSE t.rdbuff

TgtRead(t, addr, dp) ==
    IF dp
    THEN t
    ELSE [t EXCEPT !.apReads = @ + 1,
                   !.rdbuff = ApReadValue(TgtAp(t), TgtBank(t) + addr * 4, t.apReads + 1)]

\* The target after a transaction it answered with ack: a FAULT goes with a
\* sticky error flag, which stays until ABORT clears it.
TgtFaulted(t, ack) == IF ack = AckFAULT THEN [t EXCEPT !.sticky = TRUE] ELSE t

\* _swd.write(addr, dp, data) as the DAP sees it.
DSwdWrite(d, addr, dp, data) ==
    LET ack == Head(d.script)
        rc  == swd_response_to_error(ack)
        e   == [rw |-> "w", dp |-> dp, addr |-> addr, data |-> data, ack |-> ack]
    IN  [d EXCEPT !.script = Tail(@),
                  !.log = Append(@, e),
                  !.rc = rc,
                  !.tgt = IF rc = success THEN TgtWrite(@, addr, dp, data)
                          ELSE TgtFaulted(@, ack)]

\* _swd.read(addr, dp, data): data is stored only when the pointer is not null.
DSwdRead(d, addr, dp, store) ==
    LET ack == Head(d.script)
        rc  == swd_response_to_error(ack)
        v   == TgtReadValue(d.tgt, addr, dp)
        e   == [rw |-> "r", dp |-> dp, addr |-> addr, data |-> v, ack |-> ack]
    IN  [d EXCEPT !.script = Tail(@),
                  !.log = Append(@, e),
                  !.rc = rc,
                  !.out = IF rc = success /\ store THEN v ELSE @,
                  !.tgt = IF rc = success THEN TgtRead(@, addr, dp)
                          ELSE TgtFaulted(@, ack)]

\* A plausible slip: the cache is updated before the write is known to have
\* been accepted.
write_select_CacheFirst(d, data) ==
    LET r == DSwdWrite(d, kRegSELECT, TRUE, data)
    IN  [r EXCEPT !.sel = data]

\* Another slip: the cache is left alone on Failure only, so a write the
\* target answered with WAIT still updates it.
write_select_CacheOnRetry(d, data) ==
    LET r == DSwdWrite(d, kRegSELECT, TRUE, data)
    IN  IF r.rc = failure THEN r ELSE [r EXCEPT !.sel = data]

\* DebugAccessPort::write_select
write_select(d, data) ==
    LET r == DSwdWrite(d, kRegSELECT, TRUE, data)
    IN  IF r.rc # success THEN r ELSE [r EXCEPT !.sel = data, !.rc = success]

\* DebugAccessPort::select_ap_bank
select_ap_bank(d, ap, address) ==
    LET sel == W(ap * 256, BitOr(BitAnd(address, 240), Lo(d.sel) % 2))
    IN  IF sel # d.sel THEN write_select(d, sel) ELSE [d EXCEPT !.rc = success]

\* DebugAccessPort::write_abort
write_abort(d, data) == DSwdWrite(d, kRegABORT, TRUE, data)

\* DebugAccessPort::write_ctrlstat
write_ctrlstat(d, data) ==
    LET r == IF Lo(d.sel) % 2 = 1
             THEN write_select(d, W(Hi(d.sel), Lo(d.sel) - 1))
             ELSE [d EXCEPT !.rc = success]
    IN  IF r.rc # success THEN r ELSE DSwdWrite(r, kRegCTRLSTAT, TRUE, data)

\* read_ctrlstat without the look at the cached CTRLSEL bit.
read_ctrlstat_NoSelect(d) == DSwdRead(d, kRegCTRLSTAT, TRUE, TRUE)

\* DebugAccessPort::read_ctrlstat
read_ctrlstat(d) ==
    LET r == IF Lo(d.sel) % 2 = 1
             THEN write_select(d, W(Hi(d.sel), Lo(d.sel) - 1))
             ELSE [d EXCEPT !.rc = success]
    IN  IF r.rc # success THEN r ELSE DSwdRead(r, kRegCTRLSTAT, TRUE, TRUE)

\* reset_state with its first two writes exchanged.
reset_state_AbortFirst(d) ==
    LET r1 == write_abort(d, W(0, 30))
    IN  IF r1.rc # success THEN r1 ELSE
        LET r2 == write_select(r1, Zero32)
        IN  IF r2.rc # success THEN r2 ELSE
            write_ctrlstat(r2, W(20480, 0))

\* reset_state that flips SELECT.CTRLSEL where the code clears SELECT.
reset_state_FlipsCtrlsel(d) ==
    LET r1 == write_select(d, W(0, 1 - (Lo(d.sel) % 2)))
    IN  IF r1.rc # success THEN r1 ELSE
        LET r2 == write_abort(r1, W(0, 30))
        IN  IF r2.rc # success THEN r2 ELSE
            DSwdWrite(r2, kRegCTRLSTAT, TRUE, W(20480, 0))

\* DebugAccessPort::reset_state
reset_state(d) ==
    LET r1 == write_select(d, Zero32)
    IN  IF r1.rc # success THEN r1 ELSE
        LET r2 == write_abort(r1, W(0, 30))
        IN  IF r2.rc # success THEN r2 ELSE
            write_ctrlstat(r2, W(20480, 0))

\* DebugAccessPort::read_idcode, read_resend, read_rdbuff
read_idcode(d) == DSwdRead(d, kRegIDCODE, TRUE, TRUE)
read_resend(d) == DSwdRead(d, kRegRESEND, TRUE, TRUE)
read_rdbuff(d) == DSwdRead(d, kRegRDBUFF, TRUE, TRUE)

\* DebugAccessPort::start_read_ap: the word read is discarded (null pointer).
start_read_ap(d, ap_index, address) ==
    IF address % 4 # 0 THEN [d EXCEPT !.rc = argument_error] ELSE
    LET r == select_ap_bank(d, ap_index, address)
    IN  IF r.rc # success THEN r
        ELSE DSwdRead(r, (address \div 4) % 4, FALSE, FALSE)

\* A plausible slip: step_read_ap drains RDBUFF after posting its read, and
\* so hands back the result of the read it has just issued.
step_read_ap_ReturnsOwn(d, ap_index, address) ==
    IF address % 4 # 0 THEN [d EXCEPT !.rc = argument_error] ELSE
    LET r == select_ap_bank(d, ap_index, address)
    IN  IF r.rc # success THEN r
        ELSE LET q == DSwdRead(r, (address \div 4) % 4, FALSE, FALSE)
             IN  IF q.rc # success THEN q
                 ELSE [q EXCEPT !.out = q.tgt.rdbuff]

\* DebugAccessPort::step_read_ap: hands back the word the read returns.
step_read_ap(d, ap_index, address) ==
    IF address % 4 # 0 THEN [d EXCEPT !.rc = argument_error] ELSE
    LET r == select_ap_bank(d, ap_index, address)
    IN  IF r.rc # success THEN r
        ELSE DSwdRead(r, (address \div 4) % 4, FALSE, TRUE)

\* DebugAccessPort::write_ap
write_ap(d, ap_index, address, data) ==
    IF address % 4 # 0 THEN [d EXCEPT !.rc = argument_error] ELSE
    LET r == select_ap_bank(d, ap_index, address)
    IN  IF r.rc # success THEN r
        ELSE DSwdWrite(r, (address \div 4) % 4, FALSE, data)

\* Inputs of the DAP model.
DapAps       == {0, 1}
DapAddresses == {12, 252, 14}          \* DRW (0x0C), IDR (0xFC), one unaligned
DapSelects   == { W(0, 0), W(0, 1) }
DapData      == { W(20480, 0) }
DapAcks      == {AckOK, AckWAIT, AckFAULT}
\* The ACKs of a call that makes at most n SWD transactions.
DapScripts(n) == [1 .. n -> DapAcks]
\* AP reads the target performs in one behaviour.
MaxApReads   == 3

NoScen == [active |-> FALSE, complete |-> FALSE, ap |-> 0, addr |-> 0,
           first |-> 0, vals |-> <<>>]

\* The posted-read pipeline in progress: opened by a successful
\* start_read_ap(ap, addr), extended by each successful step_read_ap on the
\* same ap and addr, closed by a successful read_rdbuff.  A retried (WAIT) or
\* failed step or drain leaves it as it is; any other call abandons it.
ScenStep(sc, kind, ap, addr, r) ==
    CASE kind = "start_read_ap" /\ r.rc = success ->
            [active |-> TRUE, complete |-> FALSE, ap |-> ap, addr |-> addr,
             first |-> r.tgt.apReads, vals |-> <<>>]
      [] kind = "step_read_ap" /\ sc.active /\ sc.ap = ap /\ sc.addr = addr ->
            IF r.rc = success THEN [sc EXCEPT !.vals = Append(@, r.out)] ELSE sc
      [] kind = "read_rdbuff" /\ sc.active ->
            IF r.rc = success
            THEN [sc EXCEPT !.vals = Append(@, r.out), !.active = FALSE,
                            !.complete = TRUE]
            ELSE sc
      [] OTHER -> NoScen

DapStart(script) ==
    [sel |-> dSELECT, tgt |-> dTgt, script |-> script, log |-> <<>>,
     rc |-> success, out |-> "none"]

DapCommit(kind, ap, addr, data, r) ==
    /\ dSELECT' = r.sel
    /\ dTgt' = r.tgt
    /\ dOp' = [kind |-> kind, ap |-> ap, addr |-> addr, data |-> data,
               log |-> r.log, rc |-> r.rc, out |-> r.out,
               selBefore |-> dSELECT, tgtSelBefore |-> dTgt.select,
               afterReset |-> (dOp.kind = "reset_state" /\ dOp.rc = success)]
    /\ dScen' = ScenStep(dScen, kind, ap, addr, r)
    /\ UNCHANGED <<swdVars, tgtVars, fnVars, procVars>>

DapResetState ==
    \E sc \in DapScripts(3) :
        DapCommit("reset_state", 0, 0, Zero32, reset_state(DapStart(sc)))

DapReadIdcode ==
    \E sc \in DapScripts(1) :
        DapCommit("read_idcode", 0, 0, Zero32, read_idcode(DapStart(sc)))

DapWriteAbort ==
    \E sc \in DapScripts(1), v \in DapData :
        DapCommit("write_abort", 0, 0, v, write_abort(DapStart(sc), v))

DapReadCtrlstat ==
    \E sc \in DapScripts(2) :
        DapCommit("read_ctrlstat", 0, 0, Zero32, read_ctrlstat(DapStart(sc)))

DapWriteCtrlstat ==
    \E sc \in DapScripts(2), v \in DapData :
        DapCommit("write_ctrlstat", 0, 0, v, write_ctrlstat(DapStart(sc), v))

DapWriteSelect ==
    \E sc \in DapScripts(1), v \in DapSelects :
        DapCommit("write_select", 0, 0, v, write_select(DapStart(sc), v))

DapReadResend ==
    \E sc \in DapScripts(1) :
        DapCommit("read_resend", 0, 0, Zero32, read_resend(DapStart(sc)))

DapReadRdbuff ==
    \E sc \in DapScripts(1) :
        DapCommit("read_rdbuff", 0, 0, Zero32, read_rdbuff(DapStart(sc)))

DapStartReadAp ==
    /\ dTgt.apReads < MaxApReads
    /\ \E sc \in DapScripts(2), ap \in DapAps, a \in DapAddresses :
        DapCommit("start_read_ap", ap, a, Zero32, start_read_ap(DapStart(sc), ap, a))

DapStepReadAp ==
    /\ dTgt.apReads < MaxApReads
    /\ \E sc \in DapScripts(2), ap \in DapAps, a \in DapAddresses :
        DapCommit("step_read_ap", ap, a, Zero32, step_read_ap(DapStart(sc), ap, a))

DapWriteAp ==
    \E sc \in DapScripts(2), ap \in DapAps, a \in DapAddresses, v \in DapData :
        DapCommit("write_ap", ap, a, v, write_ap(DapStart(sc), ap, a, v))

\* DebugAccessPort::DebugAccessPort: _SELECT(-1).  Nothing has been written to
\* the target's SELECT yet.
DapInit ==
    /\ dSELECT = AllOnes32
    /\ dTgt = [select |-> <<>>, ctrlstat |-> Zero32, wcr |-> Zero32,
               rdbuff |-> Zero32, apReads |-> 0, sticky |-> FALSE]
    /\ dOp = [kind |-> "none", rc |-> success]
    /\ dScen = NoScen

DapNext ==
    \/ DapResetState \/ DapReadIdcode \/ DapWriteAbort \/ DapReadCtrlstat
    \/ DapWriteCtrlstat \/ DapWriteSelect \/ DapReadResend \/ DapReadRdbuff
    \/ DapStartReadAp \/ DapStepReadAp \/ DapWriteAp

\* C2 as stated: whatever the cache holds is the value last written to the
\* target's SELECT.
C2_CacheIsLastWritten == dTgt.select = <<dSELECT>>

\* C2: SELECT cache coherence, from the first accepted SELECT write on: after
\* any sequence of DAP calls, refused ones included, the cached value is the
\* value the target's SELECT was last written with.
C2_CacheCoherentOnceWritten ==
    dTgt.select # <<>> => dTgt.select = <<dSELECT>>

\* A write_select the target refused, after an earlier one it accepted: the
\* cache keeps the accepted value.
C2_Witness ==
    /\ dOp.kind = "write_select"
    /\ dOp.rc # success
    /\ dTgt.select # <<>>
    /\ dOp.data # dSELECT

\* C35: when the SWD write of SELECT returns Retry or Failure the cached
\* SELECT is left as it was: a refused write_select, and any call none of
\* whose SELECT writes was accepted, ends with the cache it started with.
C35_RefusedSelectKeepsCache ==
    /\ (dOp.kind = "write_select" /\ dOp.rc # success) =>
            dSELECT = dOp.selBefore
    /\ (dOp.kind # "none"
            /\ \A i \in 1 .. Len(dOp.log) :
                    ~(dOp.log[i].rw = "w" /\ dOp.log[i].dp
                        /\ dOp.log[i].addr = kRegSELECT
                        /\ dOp.log[i].ack = AckOK)) =>
            dSELECT = dOp.selBefore

\* A write_select of a new value that the target answered with WAIT.
C35_Witness ==
    /\ dOp.kind = "write_select"
    /\ dOp.rc = try_again
    /\ dOp.data # dOp.selBefore
    /\ dSELECT = dOp.selBefore

\* C3: in start_read_ap(A); step_read_ap(A); ...; read_rdbuff on one AP and
\* bank, the i-th word handed back is the result of the i-th AP read of the
\* sequence: each step returns the result of the read issued just before it.
C3_PostedReadOrder ==
    \A i \in 1 .. Len(dScen.vals) :
        dScen.vals[i] = ApReadValue(dScen.ap, dScen.addr, dScen.first + i - 1)

\* start, step, step, read_rdbuff has run to completion.
C3_Witness ==
    /\ dScen.complete
    /\ Len(dScen.vals) = 3

\* One DP write as it appears in a call's log.
DpWrite(addr, data, ack) ==
    [rw |-> "w", dp |-> TRUE, addr |-> addr, data |-> data, ack |-> ack]
IsSelectWrite(e) == e.rw = "w" /\ e.dp /\ e.addr = kRegSELECT
IsRdbuffDrain(e) == e.rw = "r" /\ e.dp /\ e.addr = kRegRDBUFF /\ e.ack = AckOK

\* C11: a successful reset_state issues exactly three SWD transactions, all
\* DP writes, in this order: SELECT = 0, ABORT = 0x1E, CTRL/STAT = 0x50000000.
C11_ResetStateTransactions ==
    (dOp.kind = "reset_state" /\ dOp.rc = success) =>
        dOp.log = << DpWrite(kRegSELECT, Zero32, AckOK),
                     DpWrite(kRegABORT, W(0, 30), AckOK),
                     DpWrite(kRegCTRLSTAT, W(20480, 0), AckOK) >>

\* A successful reset_state on a DAP whose cache had CTRLSEL set.
C11_Witness ==
    /\ dOp.kind = "reset_state" /\ dOp.rc = success
    /\ dOp.selBefore = W(0, 1)
    /\ Len(dOp.log) = 3

\* C12: reset_state is idempotent: a successful reset_state that follows a
\* successful reset_state leaves the cached SELECT, the target's SELECT, its
\* sticky error flag and its CTRL/STAT power-up requests as they were.
C12_ResetStateIdempotent ==
    [][ (dOp.kind = "reset_state" /\ dOp.rc = success
            /\ dOp'.kind = "reset_state" /\ dOp'.rc = success) =>
        /\ dSELECT' = dSELECT
        /\ dTgt'.select = dTgt.select
        /\ dTgt'.sticky = dTgt.sticky
        /\ dTgt'.ctrlstat = dTgt.ctrlstat ]_vars

\* The second of two consecutive successful calls has returned.
C12_Witness ==
    /\ dOp.kind = "reset_state" /\ dOp.rc = success
    /\ dOp.afterReset
    /\ dSELECT = Zero32 /\ dTgt.select = <<Zero32>>
    /\ ~dTgt.sticky /\ dTgt.ctrlstat = W(20480, 0)

\* The cached SELECT value at the moment transaction i of a call is issued.
CacheAt(op, i) ==
    LET prior == {j \in 1 .. i - 1 :
                    IsSelectWrite(op.log[j]) /\ op.log[j].ack = AckOK}
    IN  IF prior = {} THEN op.selBefore
        ELSE op.log[CHOOSE j \in prior : \A k \in prior : k <= j].data

\* C13: no DAP call issues a SELECT write whose value equals the value the
\* cache holds at that moment.
C13_NoRedundantSelectWrite ==
    dOp.kind # "none" =>
        \A i \in 1 .. Len(dOp.log) :
            IsSelectWrite(dOp.log[i]) => dOp.log[i].data # CacheAt(dOp, i)

\* What does hold: the calls that go through select_ap_bank or clear CTRLSEL
\* write SELECT only with a value that differs from the cached one.
C13_ImplicitSelectWritesDiffer ==
    dOp.kind \notin {"none", "reset_state", "write_select"} =>
        \A i \in 1 .. Len(dOp.log) :
            IsSelectWrite(dOp.log[i]) => dOp.log[i].data # CacheAt(dOp, i)

\* The AP and bank a SELECT value names.
ApAndBank(v) == <<Hi(v) \div 256, BitAnd(Lo(v), 240)>>

\* C14: while a posted AP read is pending (the pipeline opened by
\* start_read_ap has not been drained), a call that writes SELECT with
\* another AP or bank has read RDBUFF before that write.
C14_DrainBeforeBankSwitch ==
    [][ dScen.active =>
        \A i \in 1 .. Len(dOp'.log) :
            (IsSelectWrite(dOp'.log[i])
                /\ ApAndBank(dOp'.log[i].data) # ApAndBank(TgtSelect(dTgt))) =>
                \E j \in 1 .. i - 1 : IsRdbuffDrain(dOp'.log[j]) ]_vars

\* C15: when read_ctrlstat or write_ctrlstat returns success, the CTRL/STAT
\* transaction was issued with SELECT.CTRLSEL clear: if the cached CTRLSEL
\* bit was set, a SELECT write of the cached value with only that bit
\* cleared precedes the access, otherwise the access is the only
\* transaction; the cached bit and the target's bit are clear on return and
\* a written word has reached CTRL/STAT.
C15_CtrlstatWithCtrlselClear ==
    (dOp.kind \in {"read_ctrlstat", "write_ctrlstat"} /\ dOp.rc = success) =>
        LET n == Len(dOp.log)
        IN  /\ Lo(dSELECT) % 2 = 0
            /\ TgtCtrlSel(dTgt) = 0
            /\ dOp.log[n].dp /\ dOp.log[n].addr = kRegCTRLSTAT
            /\ dOp.log[n].rw = (IF dOp.kind = "read_ctrlstat" THEN "r" ELSE "w")
            /\ IF Lo(dOp.selBefore) % 2 = 1
               THEN /\ n = 2
                    /\ dOp.log[1] = DpWrite(kRegSELECT,
                                            W(Hi(dOp.selBefore),
                                              Lo(dOp.selBefore) - 1), AckOK)
               ELSE n = 1
            /\ dOp.kind = "write_ctrlstat" => dTgt.ctrlstat = dOp.data
            /\ dOp.kind = "read_ctrlstat" => dOp.out = dTgt.ctrlstat

\* read_ctrlstat has succeeded on a DAP whose SELECT, cached and on the
\* target, had CTRLSEL set.
C15_Witness ==
    /\ dOp.kind = "read_ctrlstat" /\ dOp.rc = success
    /\ dOp.selBefore = W(0, 1) /\ dOp.tgtSelBefore = <<W(0, 1)>>
    /\ Len(dOp.log) = 2


----------------------------------------------------------------------------
(* Target: the facade over a DebugAccessPort without SELECT cache (the      *)
(* *_in_bank interface) and the device behind it: DP, MEM-AP, RAM and the   *)
(* core's debug registers.  A Target call is one action.  Its environment   *)
(* env says how the device acknowledges the call's SWD transactions.        *)

MEM_AP_CSW == 0
MEM_AP_TAR == 4
MEM_AP_DRW == 12

AIRCR == W(57344, 60684)            \* 0xE000ED0C
DFSR  == W(57344, 60720)            \* 0xE000ED30
DHCSR == W(57344, 60912)            \* 0xE000EDF0
DCRSR == W(57344, 60916)            \* 0xE000EDF4
DCRDR == W(57344, 60920)            \* 0xE000EDF8
DEMCR == W(57344, 60924)            \* 0xE000EDFC
AIRCR_VECTKEY   == W(1530, 0)       \* 0x05FA << 16
AIRCR_VECTRESET == W(0, 1)
DHCSR_DBGKEY    == W(41055, 0)      \* 0xA05F << 16

\* The retry budgets written at the CheckRetry sites.
kDapRetries  == 100
kHaltRetries == 1000

\* A call that is still spinning in a polling loop when the model stops
\* following it has not returned.
no_return == "no_return"
\* Iterations of a polling loop the model follows.
MaxSpin == 3

\* The MEM-AP's CSW out of reset: reserved bits set, DeviceEn, word size,
\* no auto-increment (0x23003042).
CswInit == W(8960, 12354)
\* What RAM and the core registers hold before anything is written.
MemInit(a) == W(43605, Lo(a))
RegInit(r) == W(21930, r)

\* Auto-increment is guaranteed over the low ten bits of TAR only; whether it
\* carries into bit 10 is the MEM-AP's choice (dev.wraps).
AutoIncWrap == 256 * 4

\* The ACK the device gives to the i-th SWD transaction of a call.
EnvAck(env, i) ==
    CASE env.kind = "wait_forever" -> IF i >= env.at THEN AckWAIT ELSE AckOK
      [] env.kind = "wait_once"    -> IF i = env.at THEN AckWAIT ELSE AckOK
      [] env.kind = "fault"        -> IF i = env.at THEN AckFAULT ELSE AckOK
      [] OTHER                     -> AckOK

\* The SWD log of a call, run-length encoded: a transaction repeated with
\* the same data and ACK is one entry with a count.
LogAppend(log, e) ==
    IF log # <<>> /\ [log[Len(log)] EXCEPT !.n = 1] = e
    THEN [log EXCEPT ![Len(log)].n = @ + 1]
    ELSE Append(log, e)

Sparse(f, a, init) == IF a \in DOMAIN f THEN f[a] ELSE init
SparseSet(f, a, v) == [x \in DOMAIN f \cup {a} |-> IF x = a THEN v ELSE f[x]]

DevAp(dev)   == Hi(TgtSelect(dev)) \div 256
DevBank(dev) == BitAnd(Lo(TgtSelect(dev)), 240)

\* TAR after one access, per CSW.AddrInc (bits 5:4; 1 is Single).
DevAutoInc(dev) ==
    IF (Lo(dev.csw) \div 16) % 4 # 1 THEN dev.tar
    ELSE IF dev.wraps
    THEN W(Hi(dev.tar),
           ((Lo(dev.tar) \div AutoIncWrap) * AutoIncWrap)
               + ((Lo(dev.tar) + 4) % AutoIncWrap))
    ELSE Add32(dev.tar, W(0, 4))

\* DHCSR as read: S_HALT (17), S_REGRDY (16), C_HALT (1), C_DEBUGEN (0).
DevDhcsr(dev) ==
    W((IF dev.halted THEN 2 ELSE 0) + (IF dev.regrdy THEN 1 ELSE 0),
      (IF dev.halted THEN 2 ELSE 0) + (IF dev.debugen THEN 1 ELSE 0))

\* A word read over the MEM-AP's bus.
BusRead(dev, a) ==
    CASE a = DHCSR -> DevDhcsr(dev)
      [] a = DCRDR -> dev.dcrdr
      [] a = DEMCR -> dev.demcr
      [] a = DFSR  -> dev.dfsr
      [] a = DCRSR -> Zero32
      [] a = AIRCR -> Zero32
      [] OTHER     -> Sparse(dev.mem, a, MemInit(a))

\* A word written over the MEM-AP's bus.  DCRSR moves a core register to or
\* from DCRDR and raises S_REGRDY, on a halted core only.  AIRCR with the key
\* and a reset request resets the core, which then halts on the reset vector
\* catch (DEMCR.VC_CORERESET, DFSR.VCATCH) unless env says it never halts.
BusWrite(dev, a, data, env) ==
    CASE a = DHCSR ->
            IF Hi(data) # Hi(DHCSR_DBGKEY) THEN dev
            ELSE [dev EXCEPT !.debugen = (Bit32(data, 0) = 1),
                             !.halted = (Bit32(data, 1) = 1),
                             !.dfsr = IF Bit32(data, 1) = 1 /\ ~dev.halted
                                      THEN Or32(@, W(0, 1)) ELSE @]
      [] a = DCRDR -> [dev EXCEPT !.dcrdr = data]
      [] a = DCRSR ->
            LET r == Lo(data) % 32
            IN  IF ~dev.halted THEN [dev EXCEPT !.regrdy = FALSE]
                ELSE IF Bit32(data, 16) = 1
                THEN [dev EXCEPT !.regs = SparseSet(@, r, dev.dcrdr),
                                 !.regrdy = TRUE]
                ELSE [dev EXCEPT !.dcrdr = Sparse(dev.regs, r, RegInit(r)),
                                 !.regrdy = TRUE]
      [] a = DEMCR -> [dev EXCEPT !.demcr = data]
      [] a = DFSR  -> [dev EXCEPT !.dfsr = W(Hi(@) - BitAnd(Hi(@), Hi(data)),
                                            Lo(@) - BitAnd(Lo(@), Lo(data)))]
      [] a = AIRCR ->
            IF Hi(data) # Hi(AIRCR_VECTKEY) \/ BitAnd(Lo(data), 5) = 0 THEN dev
            ELSE LET caught == Bit32(dev.demcr, 0) = 1 /\ env.kind # "never_halts"
                 IN  [dev EXCEPT !.regs = <<>>, !.regrdy = FALSE,
                                 !.halted = caught,
                                 !.dfsr = IF caught THEN Or32(@, W(0, 8)) ELSE @]
      [] OTHER -> [dev EXCEPT !.mem = SparseSet(@, a, data)]

\* The device's side of a write it acknowledges with OK.  Only AP 0, bank 0
\* (the MEM-AP) is populated.
DevWrite(dev, addr, dp, data, env) ==
    IF dp
    THEN IF addr = kRegSELECT THEN [dev EXCEPT !.select = <<data>>] ELSE dev
    ELSE IF DevAp(dev) # 0 \/ DevBank(dev) # 0 THEN dev
    ELSE CASE addr * 4 = MEM_AP_CSW -> [dev EXCEPT !.csw = data]
           [] addr * 4 = MEM_AP_TAR -> [dev EXCEPT !.tar = data]
           [] addr * 4 = MEM_AP_DRW ->
                [BusWrite(dev, dev.tar, data, env) EXCEPT
                    !.tar = DevAutoInc(dev),
                    !.busy = IF env.kind = "busy" THEN 1
                             ELSE IF env.kind = "stuck" THEN MaxSpin + 1
                             ELSE 0]
           [] OTHER -> dev

\* The word a read acknowledged with OK returns: a DP register, or, for an
\* AP read, what RDBUFF holds (AP reads are posted).
DevReadValue(dev, addr, dp) ==
    IF dp /\ addr = kRegIDCODE THEN IdCode
    ELSE IF dp /\ addr = kRegCTRLSTAT THEN Zero32
    ELSE dev.rdbuff

\* The device after that read: an AP read's own result goes to RDBUFF.  CSW
\* shows TrInProg (bit 7) while a write is in progress.
DevRead(dev, addr, dp) ==
    IF dp THEN dev
    ELSE IF DevAp(dev) # 0 \/ DevBank(dev) # 0 THEN [dev EXCEPT !.rdbuff = Zero32]
    ELSE CASE addr * 4 = MEM_AP_CSW ->
                [dev EXCEPT !.rdbuff = IF dev.busy > 0 THEN Or32(dev.csw, W(0, 128))
                                       ELSE dev.csw,
                            !.busy = IF @ > 0 THEN @ - 1 ELSE 0]
           [] addr * 4 = MEM_AP_TAR -> [dev EXCEPT !.rdbuff = dev.tar]
           [] addr * 4 = MEM_AP_DRW ->
                [dev EXCEPT !.rdbuff = BusRead(dev, dev.tar),
                            !.tar = DevAutoInc(dev)]
           [] OTHER -> [dev EXCEPT !.rdbuff = Zero32]

\* _swd.write and _swd.read as the uncached DebugAccessPort sees them; ack is
\* the device's answer to this transaction.
TSwdWriteAck(d, addr, dp, data, ack) ==
    [d EXCEPT !.txn = @ + 1,
              !.log = LogAppend(@, [rw |-> "w", dp |-> dp, addr |-> addr,
                                    data |-> data, ack |-> ack, n |-> 1]),
              !.rc = swd_response_to_error(ack),
              !.dev = IF ack = AckOK
                      THEN DevWrite(@, addr, dp, data, d.env) ELSE @]

TSwdWrite(d, addr, dp, data) ==
    TSwdWriteAck(d, addr, dp, data, EnvAck(d.env, d.txn + 1))

TSwdReadAck(d, addr, dp, store, ack) ==
    [d EXCEPT !.txn = @ + 1,
              !.log = LogAppend(@, [rw |-> "r", dp |-> dp, addr |-> addr,
                                    data |-> IF ack = AckOK
                                             THEN DevReadValue(d.dev, addr, dp)
                                             ELSE Zero32,
                                    ack |-> ack, n |-> 1]),
              !.rc = swd_response_to_error(ack),
              !.out = IF ack = AckOK /\ store
                      THEN DevReadValue(d.dev, addr, dp) ELSE @,
              !.dev = IF ack = AckOK THEN DevRead(@, addr, dp) ELSE @]

TSwdRead(d, addr, dp, store) ==
    TSwdReadAck(d, addr, dp, store, EnvAck(d.env, d.txn + 1))

\* DebugAccessPort (uncached): select_ap_bank, read_rdbuff and the *_in_bank
\* accesses.
select_ap_bank_uncached(d, ap, bank_address) ==
    TSwdWrite(d, kRegSELECT, TRUE, W(ap * 256, bank_address \div 16))

read_rdbuff_uncached(d) == TSwdRead(d, kRegRDBUFF, TRUE, TRUE)

start_read_ap_in_bank(d, bank_address) ==
    IF bank_address % 4 # 0 THEN [d EXCEPT !.rc = argument_error]
    ELSE TSwdRead(d, (bank_address \div 4) % 4, FALSE, FALSE)

step_read_ap_in_bank(d, bank_address) ==
    IF bank_address % 4 # 0 THEN [d EXCEPT !.rc = argument_error]
    ELSE TSwdRead(d, (bank_address \div 4) % 4, FALSE, TRUE)

write_ap_in_bank(d, bank_address, data) ==
    IF bank_address % 4 # 0 THEN [d EXCEPT !.rc = argument_error]
    ELSE TSwdWrite(d, (bank_address \div 4) % 4, FALSE, data)

\* Check(expr): an error of expr is returned at once; on success the code
\* after it, K, goes on from expr's result.
Check(r, K(_)) == IF r.rc # success THEN r ELSE K(r)

\* CheckRetry(expr, budget): evaluate expr again while it gives try_again, at
\* most budget times in all; try_again from the last attempt becomes failure,
\* any other error is returned as it is.  RetryLoop makes up to n attempts,
\* halving n so that a budget of 1000 does not nest 1000 deep.
RetryPending(d, n) == n > 0 /\ d.rc = try_again

RECURSIVE RetryLoop(_, _, _)
RetryLoop(Op(_), d, n) ==
    IF ~RetryPending(d, n) THEN d
    ELSE IF n = 1 THEN Op(d)
    ELSE RetryLoop(Op, RetryLoop(Op, d, n \div 2), n - (n \div 2))

RetryGiveUp(r) ==
    IF r.rc = try_again THEN [r EXCEPT !.rc = failure, !.exhausted = @ + 1]
    ELSE r

CheckRetry(Op(_), d, budget) ==
    RetryGiveUp(RetryLoop(Op, [d EXCEPT !.rc = try_again], budget))

\* Target::select_bank_for_address
select_bank_for_address(d, address) ==
    IF d.bank # (address \div 16) * 16
    THEN Check(select_ap_bank_uncached(d, 0, (address \div 16) * 16),
               LAMBDA r : [r EXCEPT !.bank = (address \div 16) * 16])
    ELSE [d EXCEPT !.rc = success]

\* Target::write_ap, start_read_ap, step_read_ap, final_read_ap
Target_write_ap(d, address, data) ==
    Check(select_bank_for_address(d, address),
          LAMBDA r : write_ap_in_bank(r, address, data))

Target_start_read_ap(d, address) ==
    Check(select_bank_for_address(d, address),
          LAMBDA r : start_read_ap_in_bank(r, address))

Target_step_read_ap(d, nextAddress) ==
    Check(select_bank_for_address(d, nextAddress),
          LAMBDA r : step_read_ap_in_bank(r, nextAddress))

final_read_ap(d) == read_rdbuff_uncached(d)

\* The first version of peek32: the posted read and the drain are issued
\* once each, and a WAIT goes back to the caller as try_again.
peek32_Unretried(d, address) ==
    Check(Target_write_ap(d, MEM_AP_TAR, address), LAMBDA r1 :
    Check(Target_start_read_ap(r1, MEM_AP_DRW), LAMBDA r2 :
    final_read_ap(r2)))

\* Target::peek32
peek32(d, address) ==
    Check(Target_write_ap(d, MEM_AP_TAR, address), LAMBDA r1 :
    Check(CheckRetry(LAMBDA x : Target_start_read_ap(x, MEM_AP_DRW),
                     r1, kDapRetries), LAMBDA r2 :
    CheckRetry(LAMBDA x : final_read_ap(x), r2, kDapRetries)))

\* poke32's do-while: read CSW until TrInProg (bit 7) is clear.
RECURSIVE poke32_wait(_, _)
poke32_wait(d, spin) ==
    Check(CheckRetry(LAMBDA x : Target_start_read_ap(x, MEM_AP_CSW),
                     d, kDapRetries), LAMBDA r1 :
    Check(final_read_ap(r1), LAMBDA r2 :
    IF Bit32(r2.out, 7) = 0 THEN r2
    ELSE IF spin = 0 THEN [r2 EXCEPT !.rc = no_return]
    ELSE poke32_wait(r2, spin - 1)))

\* poke32 with its first two writes exchanged: DRW is written while TAR still
\* holds the address of the access before.
poke32_DrwFirst(d, address, data) ==
    Check(CheckRetry(LAMBDA x : Target_write_ap(x, MEM_AP_DRW, data),
                     d, kDapRetries), LAMBDA r1 :
    Check(Target_write_ap(r1, MEM_AP_TAR, address), LAMBDA r2 :
    poke32_wait(r2, MaxSpin)))

\* Target::poke32
poke32(d, address, data) ==
    Check(Target_write_ap(d, MEM_AP_TAR, address), LAMBDA r1 :
    Check(CheckRetry(LAMBDA x : Target_write_ap(x, MEM_AP_DRW, data),
                     r1, kDapRetries), LAMBDA r2 :
    poke32_wait(r2, MaxSpin)))

\* Target::read_word, write_word
read_word(d, addr) == peek32(d, addr)
write_word(d, addr, data) == poke32(d, addr, data)

\* The do-while of read_register and write_register: read DHCSR until
\* S_REGRDY (bit 16) is set.
RECURSIVE regrdy_wait(_, _)
regrdy_wait(d, spin) ==
    Check(peek32(d, DHCSR), LAMBDA r :
    IF Bit32(r.out, 16) = 1 THEN r
    ELSE IF spin = 0 THEN [r EXCEPT !.rc = no_return]
    ELSE regrdy_wait(r, spin - 1))

\* Target::read_register
read_register(d, reg) ==
    Check(poke32(d, DCRSR, W(0, reg % 32)), LAMBDA r1 :
    Check(regrdy_wait(r1, MaxSpin), LAMBDA r2 :
    peek32(r2, DCRDR)))

\* write_register with its two writes exchanged: the transfer is requested
\* before DCRDR holds the new value.
write_register_SelectFirst(d, reg, data) ==
    Check(poke32(d, DCRSR, W(1, reg % 32)), LAMBDA r1 :
    Check(poke32(r1, DCRDR, data), LAMBDA r2 :
    regrdy_wait(r2, MaxSpin)))

\* Target::write_register
write_register(d, reg, data) ==
    Check(poke32(d, DCRDR, data), LAMBDA r1 :
    Check(poke32(r1, DCRSR, W(1, reg % 32)), LAMBDA r2 :
    regrdy_wait(r2, MaxSpin)))

\* Target::poll_for_halt
poll_for_halt(d, dfsr_mask) ==
    Check(peek32([d EXCEPT !.polls = @ + 1], DHCSR), LAMBDA r1 :
    Check(peek32(r1, DFSR), LAMBDA r2 :
    IF Bit32(r1.out, 17) = 1 /\ And32(r2.out, dfsr_mask) # Zero32
    THEN r2
    ELSE [r2 EXCEPT !.rc = try_again]))

\* Target::reset_and_halt
reset_and_halt(d) ==
    Check(peek32(d, DEMCR), LAMBDA r1 :
    Check(poke32(r1, DEMCR, Or32(r1.out, W(256, 1025))), LAMBDA r2 :
    Check(poke32(r2, AIRCR, Or32(AIRCR_VECTKEY, AIRCR_VECTRESET)), LAMBDA r3 :
    Check(CheckRetry(LAMBDA x : poll_for_halt(x, W(0, 8)), r3, kHaltRetries),
          LAMBDA r4 :
    poke32(r4, DEMCR, r1.out)))))

\* The BreakPoint Unit.
BP_CTRL  == W(57344, 8192)          \* 0xE0002000
BP_COMP0 == W(57344, 8200)          \* 0xE0002008

\* enable_breakpoint with the address masked by 0x1FFFFFFE: bit 1 of the
\* address stays in the comparator word.
enable_breakpoint_KeepsBit1(d, n, addr) ==
    IF Hi(addr) \div 8192 # 0 THEN [d EXCEPT !.rc = argument_error]
    ELSE poke32(d, Add32(BP_COMP0, W(0, n * 4)),
                W((IF Bit32(addr, 1) = 1 THEN 2 ELSE 1) * 16384
                      + (Hi(addr) % 8192),
                  (Lo(addr) \div 2) * 2 + 1))

\* Target::enable_breakpoint: (match_type << 30) | (addr & 0x1FFFFFFC) | 1,
\* refused for an address with any of the top three bits set.
enable_breakpoint(d, n, addr) ==
    IF Hi(addr) \div 8192 # 0 THEN [d EXCEPT !.rc = argument_error]
    ELSE poke32(d, Add32(BP_COMP0, W(0, n * 4)),
                W((IF Bit32(addr, 1) = 1 THEN 2 ELSE 1) * 16384
                      + (Hi(addr) % 8192),
                  (Lo(addr) \div 4) * 4 + 1))

\* Target::is_register_implemented
kRLast == 20
is_register_implemented(n) == n # 19 /\ n <= kRLast

\* halt that leaves C_HALT out of the word it writes.
halt_DebugenOnly(d) == poke32(d, DHCSR, Or32(DHCSR_DBGKEY, W(0, 1)))

\* Target::halt, resume
halt(d)   == poke32(d, DHCSR, Or32(DHCSR_DBGKEY, W(0, 3)))
resume(d) == poke32(d, DHCSR, Or32(DHCSR_DBGKEY, W(0, 1)))

\* for (size_t i = lo; i < hi; ++i) Body(i), left at the first error.  The
\* range is halved so that a long transfer does not nest as deep as it is long.
RECURSIVE ForRange(_, _, _, _)
ForRange(Body(_, _), d, lo, hi) ==
    IF lo >= hi \/ d.rc # success THEN d
    ELSE IF hi = lo + 1 THEN Body(d, lo)
    ELSE ForRange(Body, ForRange(Body, d, lo, (lo + hi) \div 2),
                  (lo + hi) \div 2, hi)

\* The same assignment without the first operand: the reserved bits are
\* written as zero.
BulkCsw_ReservedCleared(csw) == W(0, 18)

\* csw = (csw & 0xFFFFF000) | (1 << 4) | 2
BulkCsw(csw) == W(Hi(csw), (Lo(csw) \div 4096) * 4096 + 18)

\* The CSW read-modify-write and the TAR write that open both bulk transfers.
BulkSetup(d, target_addr) ==
    Check(Target_start_read_ap(d, MEM_AP_CSW), LAMBDA r1 :
    Check(final_read_ap(r1), LAMBDA r2 :
    Check(Target_write_ap(r2, MEM_AP_CSW, BulkCsw(r2.out)), LAMBDA r3 :
    Target_write_ap(r3, MEM_AP_TAR, target_addr))))

\* step_read_ap(MEM_AP::DRW, &host_buffer_as_words[i])
StoreWord(r, i) ==
    IF r.rc = success
    THEN [r EXCEPT !.buf = [j \in 1 .. i + 1 |->
                                IF j = i + 1 THEN r.out ELSE r.buf[j]]]
    ELSE r

\* Target::read_words
read_words(d, target_addr, count) ==
    Check(BulkSetup(d, target_addr), LAMBDA r1 :
    Check(CheckRetry(LAMBDA x : Target_start_read_ap(x, MEM_AP_DRW),
                     r1, kDapRetries), LAMBDA r2 :
    ForRange(LAMBDA x, i :
                StoreWord(CheckRetry(LAMBDA y : Target_step_read_ap(y, MEM_AP_DRW),
                                     x, kDapRetries), i),
             r2, 0, count)))

\* Target::write_words
write_words(d, host_buffer, target_addr, count) ==
    Check(BulkSetup(d, target_addr), LAMBDA r1 :
    ForRange(LAMBDA x, i : Target_write_ap(x, MEM_AP_DRW, host_buffer[i + 1]),
             r1, 0, count))

\* Inputs of the Target model.
RamA0 == W(8192, 0)                 \* 0x20000000
RamA1 == W(8192, 4)
WordV1 == W(57005, 48879)           \* 0xDEADBEEF
WordV2 == W(4660, 22136)            \* 0x12345678
TgtAddresses == {RamA0, RamA1}
TgtWords     == {WordV1, WordV2}
TgtRegisters == {0, 15}
\* Register numbers that name no register: the unused 19 and one past kRLast.
TgtBadRegisters == {19, 21}
\* Calls made to one Target object in one behaviour.
MaxCalls == 2
\* The latest transaction of a call at which the device starts to misbehave.
MaxAt == 4

EnvOk == [kind |-> "ok", at |-> 0]
\* The device answers WAIT from some transaction on, WAIT or FAULT once, or
\* keeps TrInProg up for one CSW read after each DRW write.  For write_word
\* there is also the device that keeps TrInProg up for good ("stuck").
TgtEnvs ==
    {EnvOk, [kind |-> "busy", at |-> 0], [kind |-> "fault", at |-> 1]}
        \cup [kind : {"wait_forever", "wait_once"}, at : 1 .. MaxAt]

NoPrev == [kind |-> "none", addr |-> Zero32, reg |-> 0, data |-> Zero32,
           count |-> 0, src |-> <<>>, env |-> EnvOk, rc |-> success]
NoTgtOp == [kind |-> "none", addr |-> Zero32, reg |-> 0, data |-> Zero32,
            count |-> 0, src |-> <<>>, mem |-> <<>>,
            env |-> EnvOk, log |-> <<>>, rc |-> success, out |-> Zero32,
            buf |-> <<>>, polls |-> 0, exhausted |-> 0, calls |-> 0,
            prev |-> NoPrev]

TgtStart(env) ==
    [bank |-> tHost, dev |-> tTgt, env |-> env, txn |-> 0, log |-> <<>>,
     rc |-> success, out |-> Zero32, buf |-> <<>>, polls |-> 0,
     exhausted |-> 0]

\* The call's effect on the Target object and the device, and the record of
\* the call: its arguments, the memory it found, what it did and returned.
TgtCommitBulk(kind, addr, count, src, reg, data, r) ==
    /\ tHost' = r.bank
    /\ tTgt' = r.dev
    /\ tOp' = [kind |-> kind, addr |-> addr, reg |-> reg, data |-> data,
               count |-> count, src |-> src, mem |-> tTgt.mem,
               env |-> r.env, log |-> r.log, rc |-> r.rc, out |-> r.out,
               buf |-> r.buf, polls |-> r.polls, exhausted |-> r.exhausted,
               calls |-> tOp.calls + 1,
               prev |-> [kind |-> tOp.kind, addr |-> tOp.addr, reg |-> tOp.reg,
                         data |-> tOp.data, count |-> tOp.count,
                         src |-> tOp.src, env |-> tOp.env, rc |-> tOp.rc]]
    /\ UNCHANGED <<swdVars, dapVars, fnVars, procVars>>

TgtCommit(kind, addr, reg, data, r) ==
    TgtCommitBulk(kind, addr, 0, <<>>, reg, data, r)

\* The device misbehaves for one choice of the arguments only; every choice
\* is made against a well-behaved device.
TgtWriteWord ==
    /\ tOp.calls < MaxCalls
    /\ \E a \in TgtAddresses, v \in TgtWords,
          env \in TgtEnvs \cup {[kind |-> "stuck", at |-> 0]} :
        /\ env = EnvOk \/ (a = RamA0 /\ v = WordV1)
        /\ TgtCommit("write_word", a, 0, v, write_word(TgtStart(env), a, v))

TgtReadWord ==
    /\ tOp.calls < MaxCalls
    /\ \E a \in TgtAddresses, env \in TgtEnvs :
        /\ env = EnvOk \/ a = RamA0
        /\ TgtCommit("read_word", a, 0, Zero32, read_word(TgtStart(env), a))

TgtWriteRegister ==
    /\ tOp.calls < MaxCalls
    /\ \E reg \in TgtRegisters \cup TgtBadRegisters, v \in TgtWords,
          env \in TgtEnvs :
        /\ env = EnvOk \/ (reg = 0 /\ v = WordV1)
        /\ reg \in TgtBadRegisters => v = WordV1
        /\ TgtCommit("write_register", Zero32, reg, v,
                     write_register(TgtStart(env), reg, v))

TgtReadRegister ==
    /\ tOp.calls < MaxCalls
    /\ \E reg \in TgtRegisters \cup TgtBadRegisters, env \in TgtEnvs :
        /\ env = EnvOk \/ reg = 0
        /\ TgtCommit("read_register", Zero32, reg, Zero32,
                     read_register(TgtStart(env), reg))

TgtResetAndHalt ==
    /\ tOp.calls < MaxCalls
    /\ \E env \in TgtEnvs \cup {[kind |-> "never_halts", at |-> 0]} :
        TgtCommit("reset_and_halt", Zero32, 0, Zero32,
                  reset_and_halt(TgtStart(env)))

TgtHalt ==
    /\ tOp.calls < MaxCalls
    /\ \E env \in {EnvOk, [kind |-> "wait_forever", at |-> 1]} :
        TgtCommit("halt", Zero32, 0, Zero32, halt(TgtStart(env)))

TgtResume ==
    /\ tOp.calls < MaxCalls
    /\ \E env \in {EnvOk, [kind |-> "wait_forever", at |-> 1]} :
        TgtCommit("resume", Zero32, 0, Zero32, resume(TgtStart(env)))

\* Inputs of the bulk transfers: a 1 KiB-aligned RAM address and the last
\* word below the next 1 KiB boundary; transfers of up to BulkShort words and
\* one of BulkLong words, one word more than a 1 KiB block holds.
BulkA0 == W(8192, 1024)             \* 0x20000400
BulkA1 == W(8192, 2044)             \* 0x200007FC
BulkAddresses == {BulkA0, BulkA1}
BulkShort == 3
BulkLong == 257
BulkCounts == 1 .. BulkShort \cup {BulkLong}
\* Two host buffers; word i of a buffer is its seed plus i.
BulkSeed1 == W(45297, 0)            \* 0xB0F10000
BulkSeed2 == W(45298, 0)
BulkSeeds == {BulkSeed1, BulkSeed2}
BulkBuffer(seed, count) == [i \in 1 .. count |-> W(Hi(seed), i)]
BulkEnvs ==
    {EnvOk, [kind |-> "fault", at |-> 1]}
        \cup [kind : {"wait_forever", "wait_once"}, at : {MaxAt, MaxAt + 2}]

\* The long transfer and the misbehaving device are each tried for one
\* choice of the other arguments.
TgtWriteWords ==
    /\ tOp.calls < MaxCalls
    /\ \E a \in BulkAddresses, n \in BulkCounts, tag \in BulkSeeds,
          env \in BulkEnvs :
        /\ n = BulkLong => (a = BulkA0 /\ env = EnvOk)
        /\ env # EnvOk => (a = BulkA0 /\ n = BulkShort /\ tag = BulkSeed1)
        /\ TgtCommitBulk("write_words", a, n, BulkBuffer(tag, n), 0, Zero32,
                         write_words(TgtStart(env), BulkBuffer(tag, n), a, n))

TgtReadWords ==
    /\ tOp.calls < MaxCalls
    /\ \E a \in BulkAddresses, n \in BulkCounts, env \in BulkEnvs :
        /\ n = BulkLong => (a = BulkA0 /\ env = EnvOk)
        /\ env # EnvOk => (a = BulkA0 /\ n = BulkShort)
        /\ TgtCommitBulk("read_words", a, n, <<>>, 0, Zero32,
                         read_words(TgtStart(env), a, n))

\* Breakpoint addresses: the two of the text, an odd one, the top of the code
\* region, and the first address above it.
BpAddresses ==
    {W(0, 260), W(0, 262), W(0, 263), W(8191, 65535), W(8192, 0)}
BpIndices == {0, 1}

\* tOp.reg holds the comparator index.
TgtEnableBreakpoint ==
    /\ tOp.calls < MaxCalls
    /\ \E n \in BpIndices, a \in BpAddresses,
          env \in {EnvOk, [kind |-> "wait_forever", at |-> 1]} :
        /\ env = EnvOk \/ (n = 0 /\ a = W(0, 260))
        /\ TgtCommit("enable_breakpoint", a, n, Zero32,
                     enable_breakpoint(TgtStart(env), n, a))

\* Target::Target: _current_ap_bank(-1).  The device is as its reset left it;
\* the core may be running or halted when the tool attaches.
TgtInit(halted, wraps) ==
    /\ tHost = -1
    /\ tTgt = [select |-> <<>>, rdbuff |-> Zero32, csw |-> CswInit,
               wraps |-> wraps,
               tar |-> Zero32, mem |-> <<>>, busy |-> 0, halted |-> halted,
               debugen |-> FALSE, regrdy |-> FALSE, regs |-> <<>>,
               dcrdr |-> Zero32, demcr |-> Zero32, dfsr |-> Zero32]
    /\ tOp = NoTgtOp

TargetNext ==
    \/ TgtWriteWord \/ TgtReadWord \/ TgtWriteRegister \/ TgtReadRegister
    \/ TgtResetAndHalt \/ TgtHalt \/ TgtResume \/ TgtEnableBreakpoint

BulkNext == TgtWriteWords \/ TgtReadWords

----------------------------------------------------------------------------
\* What a call put on the wire, read off its log.
LastEntry(log) == log[Len(log)]
IsApRead(e, address)  == e.rw = "r" /\ ~e.dp /\ e.addr = address \div 4
IsApWrite(e, address) == e.rw = "w" /\ ~e.dp /\ e.addr = address \div 4
IsRdbuffRead(e)       == e.rw = "r" /\ e.dp /\ e.addr = kRegRDBUFF

\* The transactions of log[lo .. hi] that pass Test, repeats counted.
RECURSIVE CountN(_, _, _, _)
CountN(Test(_), log, lo, hi) ==
    IF lo > hi THEN 0
    ELSE IF lo = hi THEN (IF Test(log[lo]) THEN log[lo].n ELSE 0)
    ELSE CountN(Test, log, lo, (lo + hi) \div 2)
            + CountN(Test, log, (lo + hi) \div 2 + 1, hi)

\* Where in the log the write of TAR is (0 if there is none).
TarWriteAt(log) ==
    IF \E i \in 1 .. Len(log) : IsApWrite(log[i], MEM_AP_TAR)
    THEN CHOOSE i \in 1 .. Len(log) : IsApWrite(log[i], MEM_AP_TAR)
    ELSE 0

\* C4: when the device answers WAIT to every attempt of an operation retried
\* with budget B, the operation is attempted exactly B times and the caller
\* receives failure.  For read_word, whose two reads are retried with budget
\* 100, the WAITed read is the last thing on the wire and is there exactly
\* 100 times; for reset_and_halt on a core that never halts, the halt poll
\* runs exactly 1000 times.  An operation that is not retried is attempted
\* once and gives try_again.
C4_RetryBudgetHonoured ==
    /\ (tOp.env.kind = "wait_forever" /\ tOp.log # <<>>
            /\ LastEntry(tOp.log).ack = AckWAIT) =>
        \/ /\ tOp.rc = failure /\ tOp.exhausted = 1
           /\ LastEntry(tOp.log).n = kDapRetries
        \/ /\ tOp.rc = try_again /\ tOp.exhausted = 0
           /\ LastEntry(tOp.log).n = 1
    /\ (tOp.kind = "read_word" /\ tOp.env.kind = "wait_forever"
            /\ tOp.log # <<>> /\ LastEntry(tOp.log).ack = AckWAIT
            /\ LastEntry(tOp.log).rw = "r") =>
        /\ tOp.rc = failure
        /\ LastEntry(tOp.log).n = kDapRetries
    /\ (tOp.kind = "reset_and_halt" /\ tOp.env.kind = "never_halts") =>
        /\ tOp.rc = failure /\ tOp.exhausted = 1
        /\ tOp.polls = kHaltRetries
    /\ tOp.exhausted > 0 => tOp.rc = failure

C4_Witness ==
    /\ tOp.kind = "read_word" /\ tOp.env.kind = "wait_forever"
    /\ tOp.rc = failure
    /\ IsApRead(LastEntry(tOp.log), MEM_AP_DRW)
    /\ LastEntry(tOp.log).ack = AckWAIT
    /\ LastEntry(tOp.log).n = kDapRetries

\* C8: write_word(a, v) followed by read_word(a), against a device that
\* answers every transaction (it may keep TrInProg up after the write), both
\* return success and the read gives v; and whatever the device does, if
\* both return success the read gives v.
C8_WordRoundTrip ==
    (tOp.kind = "read_word" /\ tOp.prev.kind = "write_word"
        /\ tOp.prev.addr = tOp.addr) =>
        /\ (tOp.env.kind \in {"ok", "busy"}
                /\ tOp.prev.env.kind \in {"ok", "busy"}) =>
            (tOp.prev.rc = success /\ tOp.rc = success)
        /\ (tOp.prev.rc = success /\ tOp.rc = success) =>
            tOp.out = tOp.prev.data

C8_Witness ==
    /\ tOp.kind = "read_word" /\ tOp.prev.kind = "write_word"
    /\ tOp.prev.addr = tOp.addr /\ tOp.prev.env.kind = "busy"
    /\ tOp.rc = success /\ tOp.out = WordV1

\* C10: while the core is halted, write_register(r, v) followed by
\* read_register(r), against a device that answers every transaction, both
\* return success and the read gives v.
C10_RegisterRoundTrip ==
    (tOp.kind = "read_register" /\ tOp.prev.kind = "write_register"
        /\ tOp.prev.reg = tOp.reg /\ tTgt.halted
        /\ tOp.env.kind \in {"ok", "busy"}
        /\ tOp.prev.env.kind \in {"ok", "busy"}) =>
        /\ tOp.prev.rc = success
        /\ tOp.rc = success
        /\ tOp.out = tOp.prev.data

C10_Witness ==
    /\ tOp.kind = "read_register" /\ tOp.prev.kind = "write_register"
    /\ tOp.prev.reg = tOp.reg /\ tOp.reg = 15 /\ tTgt.halted
    /\ tOp.rc = success /\ tOp.out = WordV1

\* The AP transactions of a call, in order; its accepted writes of DRW and
\* of TAR and its answered RDBUFF reads.
ApTransfers(log) == SelectSeq(log, LAMBDA e : ~e.dp)
DrwWrites(log) ==
    SelectSeq(log, LAMBDA e : IsApWrite(e, MEM_AP_DRW) /\ e.ack = AckOK)
TarWrites(log) ==
    SelectSeq(log, LAMBDA e : IsApWrite(e, MEM_AP_TAR) /\ e.ack = AckOK)
RdbuffReadsOf(log) ==
    SelectSeq(log, LAMBDA e : IsRdbuffRead(e) /\ e.ack = AckOK)

\* C17: a write_word(addr, data) that succeeds against a device that answers
\* every transaction has issued a TAR write of addr and a DRW write of data
\* and nothing else on the AP: no CSW read, no RDBUFF read.
C17_WriteWordCompleteOnIssue ==
    (tOp.kind = "write_word" /\ tOp.rc = success /\ tOp.env = EnvOk) =>
        /\ Len(ApTransfers(tOp.log)) = 2
        /\ IsApWrite(ApTransfers(tOp.log)[1], MEM_AP_TAR)
        /\ ApTransfers(tOp.log)[1].data = tOp.addr
        /\ IsApWrite(ApTransfers(tOp.log)[2], MEM_AP_DRW)
        /\ ApTransfers(tOp.log)[2].data = tOp.data
        /\ RdbuffReadsOf(tOp.log) = <<>>

\* What write_word does issue: after the two writes, a posted read of CSW
\* and an RDBUFF read, until TrInProg is clear.
C17_WriteWordAsCoded ==
    (tOp.kind = "write_word" /\ tOp.rc = success /\ tOp.env = EnvOk) =>
        /\ Len(ApTransfers(tOp.log)) = 3
        /\ ApTransfers(tOp.log)[1].data = tOp.addr
        /\ ApTransfers(tOp.log)[2].data = tOp.data
        /\ IsApRead(ApTransfers(tOp.log)[3], MEM_AP_CSW)
        /\ Len(RdbuffReadsOf(tOp.log)) = 1

\* C18: read_register and write_register with a register number that names
\* no register (19, or one above kRLast) return argument_error and put
\* nothing on the wire.
C18_BadRegisterRefused ==
    (tOp.kind \in {"read_register", "write_register"}
        /\ ~is_register_implemented(tOp.reg)) =>
        /\ tOp.rc = argument_error
        /\ tOp.log = <<>>

\* C19: a reset_and_halt that succeeds has written DEMCR with the value it
\* read OR'ed with bits 0, 10 and 24, and after that AIRCR with
\* VECTKEY | SYSRESETREQ (0x05FA0004).
C19_ResetRequest ==
    (tOp.kind = "reset_and_halt" /\ tOp.rc = success) =>
        /\ TarWrites(tOp.log)[2].data = DEMCR
        /\ DrwWrites(tOp.log)[1].data
                = Or32(RdbuffReadsOf(tOp.log)[1].data, W(256, 1025))
        /\ TarWrites(tOp.log)[3].data = AIRCR
        /\ DrwWrites(tOp.log)[2].data = W(1530, 4)

\* What reset_and_halt does write to AIRCR: VECTKEY | VECTRESET (0x05FA0001).
C19_ResetRequestAsCoded ==
    (tOp.kind = "reset_and_halt" /\ tOp.rc = success) =>
        /\ TarWrites(tOp.log)[2].data = DEMCR
        /\ DrwWrites(tOp.log)[1].data
                = Or32(RdbuffReadsOf(tOp.log)[1].data, W(256, 1025))
        /\ TarWrites(tOp.log)[3].data = AIRCR
        /\ DrwWrites(tOp.log)[2].data = W(1530, 1)

\* C20: when reset_and_halt returns after a write to DEMCR has been
\* accepted, DEMCR holds the value read at the start of the call.
C20_DemcrRestored ==
    (tOp.kind = "reset_and_halt"
        /\ DrwWrites(tOp.log) # <<>>) =>
        tTgt.demcr = RdbuffReadsOf(tOp.log)[1].data

\* DEMCR is restored by the calls that return success.
C20_DemcrRestoredOnSuccess ==
    (tOp.kind = "reset_and_halt" /\ tOp.rc = success) =>
        tTgt.demcr = RdbuffReadsOf(tOp.log)[1].data

\* C23: for addr below 512 MiB, enable_breakpoint(n, addr) writes to
\* BP_COMP0 + 4*n the word MATCH | (addr & 0x1FFFFFFC) | ENABLE, with MATCH
\* = 2 << 30 when bit 1 of addr is set and 1 << 30 otherwise; (0, 0x104)
\* writes 0x40000105 to BP_COMP0 and (1, 0x106) writes 0x80000105 to
\* BP_COMP1.  An address of 512 MiB or above is refused with nothing written.
C23_BreakpointWord ==
    tOp.kind = "enable_breakpoint" =>
        /\ Hi(tOp.addr) >= 8192 => (tOp.rc = argument_error /\ tOp.log = <<>>)
        /\ (Hi(tOp.addr) < 8192 /\ tOp.rc = success) =>
            /\ Len(TarWrites(tOp.log)) = 1
            /\ TarWrites(tOp.log)[1].data = Add32(BP_COMP0, W(0, 4 * tOp.reg))
            /\ Len(DrwWrites(tOp.log)) = 1
            /\ DrwWrites(tOp.log)[1].data =
                Or32(Or32(IF Bit32(tOp.addr, 1) = 1 THEN W(32768, 0)
                                                    ELSE W(16384, 0),
                          And32(tOp.addr, W(8191, 65532))),
                     W(0, 1))
            /\ (tOp.reg = 0 /\ tOp.addr = W(0, 260)) =>
                Sparse(tTgt.mem, BP_COMP0, Zero32) = W(16384, 261)
            /\ (tOp.reg = 1 /\ tOp.addr = W(0, 262)) =>
                Sparse(tTgt.mem, W(57344, 8204), Zero32) = W(32768, 261)

\* enable_breakpoint(1, 0x00000106) has written 0x80000105 to BP_COMP1.
C23_Witness ==
    /\ tOp.kind = "enable_breakpoint" /\ tOp.rc = success
    /\ tOp.reg = 1 /\ tOp.addr = W(0, 262)
    /\ Sparse(tTgt.mem, W(57344, 8204), Zero32) = W(32768, 261)

\* C24: a halt that succeeds has written DHCSR = 0xA05F0003 and nothing
\* else, and the core is halted; a resume that succeeds has written DHCSR =
\* 0xA05F0001 and nothing else, and the core is running.
C24_HaltAndResume ==
    (tOp.kind \in {"halt", "resume"} /\ tOp.rc = success) =>
        /\ Len(TarWrites(tOp.log)) = 1
        /\ TarWrites(tOp.log)[1].data = DHCSR
        /\ Len(DrwWrites(tOp.log)) = 1
        /\ DrwWrites(tOp.log)[1].data =
                (IF tOp.kind = "halt" THEN W(41055, 3) ELSE W(41055, 1))
        /\ tTgt.halted = (tOp.kind = "halt")
        /\ tTgt.mem = tOp.mem

\* A running core was halted and then resumed.
C24_Witness ==
    /\ tOp.kind = "resume" /\ tOp.rc = success
    /\ tOp.prev.kind = "halt" /\ tOp.prev.rc = success
    /\ ~tTgt.halted

\* C21: no memory or register call of Target returns try_again: a WAIT is
\* retried within the budget or comes back as failure.
C21_NoRetryToCaller ==
    tOp.kind \in {"write_word", "read_word", "write_register", "read_register"}
        => tOp.rc # try_again

\* What does hold: try_again comes back only from a transaction under a
\* plain Check, attempted once; the retried ones give failure.
C21_RetryOnlyFromUnretried ==
    (tOp.kind \in {"write_word", "read_word", "write_register", "read_register"}
        /\ tOp.rc = try_again) =>
        /\ LastEntry(tOp.log).ack = AckWAIT
        /\ LastEntry(tOp.log).n = 1
        /\ tOp.exhausted = 0

\* C34: every Target call returns after a bounded number of transactions,
\* whatever the target answers: none is still polling when the target keeps
\* TrInProg set or S_REGRDY clear.
C34_EveryCallReturns ==
    tOp.kind # "none" => tOp.rc # no_return

\* What the calls do: the retried transactions are bounded, but a call whose
\* target answers every poll OK with TrInProg set (write_word) or S_REGRDY
\* clear (read_register, write_register) goes on polling, and no other call
\* does.
C34_SpinsOnlyWhilePollUnsatisfied ==
    tOp.rc = no_return =>
        /\ IsRdbuffRead(LastEntry(tOp.log))
        /\ LastEntry(tOp.log).ack = AckOK
        /\ \/ /\ tOp.kind = "write_word" /\ tOp.env.kind = "stuck"
              /\ Bit32(tOp.out, 7) = 1
           \/ /\ tOp.kind \in {"read_register", "write_register"}
              /\ Bit32(tOp.out, 16) = 0

\* The ABORT write of reset_state in a call's log.
IsAbortWrite(e) == e.rw = "w" /\ e.dp /\ e.addr = kRegABORT

\* C22: a call in which a retried operation ran out of its budget on WAIT
\* has attempted reset_state exactly once before it returns failure: its
\* log holds one ABORT write, after the last WAITed attempt.
C22_ResetStateOnExhaustion ==
    tOp.exhausted > 0 =>
        /\ tOp.rc = failure
        /\ CountN(IsAbortWrite, tOp.log, 1, Len(tOp.log)) = 1

\* What the call does: it returns failure right after the last WAITed
\* attempt, with no ABORT write anywhere in its log.
C22_NoRecoveryAsCoded ==
    (tOp.exhausted > 0 /\ tOp.env.kind # "never_halts") =>
        /\ tOp.rc = failure
        /\ LastEntry(tOp.log).ack = AckWAIT
        /\ CountN(IsAbortWrite, tOp.log, 1, Len(tOp.log)) = 0

\* Whether a transfer of count words from addr runs over a 1 KiB boundary.
CrossesBoundary(addr, count) ==
    Lo(addr) \div AutoIncWrap # (Lo(addr) + 4 * (count - 1)) \div AutoIncWrap
WordAddress(addr, i) == Add32(addr, W(0, 4 * (i - 1)))

\* C16: a read_words or write_words that runs over a 1 KiB boundary and
\* succeeds has written TAR again at the boundary, and word i of the
\* transfer was read from or written to addr + 4*i.
C16_BulkSplitsAtBoundary ==
    (tOp.kind \in {"read_words", "write_words"} /\ tOp.rc = success
        /\ CrossesBoundary(tOp.addr, tOp.count)) =>
        /\ Len(TarWrites(tOp.log)) >= 2
        /\ tOp.kind = "write_words" =>
            \A i \in 1 .. tOp.count :
                Sparse(tTgt.mem, WordAddress(tOp.addr, i), Zero32) = tOp.src[i]
        /\ tOp.kind = "read_words" =>
            \A i \in 1 .. tOp.count :
                tOp.buf[i] = Sparse(tOp.mem, WordAddress(tOp.addr, i),
                                    MemInit(WordAddress(tOp.addr, i)))

\* On a MEM-AP that carries its auto-increment into bit 10 the words do go
\* to and come from addr + 4*i, with TAR written once.
C16_WordsInPlaceWithoutWrap ==
    (tOp.kind \in {"read_words", "write_words"} /\ tOp.rc = success
        /\ ~tTgt.wraps) =>
        /\ tOp.kind = "write_words" =>
            \A i \in 1 .. tOp.count :
                Sparse(tTgt.mem, WordAddress(tOp.addr, i), Zero32) = tOp.src[i]
        /\ tOp.kind = "read_words" =>
            \A i \in 1 .. tOp.count :
                tOp.buf[i] = Sparse(tOp.mem, WordAddress(tOp.addr, i),
                                    MemInit(WordAddress(tOp.addr, i)))

\* C6: a read_words of n words that succeeds against a device that answers
\* every transaction has put on the wire one TAR write, after it exactly n AP
\* reads of DRW and then exactly one RDBUFF read, and buf[i] is the word the
\* MEM-AP read at the i-th address of the transfer.
C6_ReadWordsTransfers ==
    (tOp.kind = "read_words" /\ tOp.rc = success /\ tOp.env = EnvOk) =>
        LET log == tOp.log
            t == TarWriteAt(log)
        IN  /\ CountN(LAMBDA e : IsApWrite(e, MEM_AP_TAR), log, 1, Len(log)) = 1
            /\ CountN(LAMBDA e : IsApRead(e, MEM_AP_DRW), log, t + 1, Len(log))
                    = tOp.count
            /\ CountN(IsRdbuffRead, log, t + 1, Len(log)) = 1
            /\ IsRdbuffRead(LastEntry(log))
            /\ Len(tOp.buf) = tOp.count
            /\ \A i \in 1 .. BulkShort :
                (i <= tOp.count /\ tOp.addr = BulkA0) =>
                    tOp.buf[i] = Sparse(tOp.mem, Add32(tOp.addr, W(0, 4 * (i - 1))),
                                        MemInit(Add32(tOp.addr, W(0, 4 * (i - 1)))))

\* What read_words does put on the wire: n + 1 AP reads of DRW after the TAR
\* write and no RDBUFF read; the words stored are the right ones.
C6_ReadWordsAsCoded ==
    (tOp.kind = "read_words" /\ tOp.rc = success /\ tOp.env = EnvOk) =>
        LET log == tOp.log
            t == TarWriteAt(log)
        IN  /\ CountN(LAMBDA e : IsApWrite(e, MEM_AP_TAR), log, 1, Len(log)) = 1
            /\ CountN(LAMBDA e : IsApRead(e, MEM_AP_DRW), log, t + 1, Len(log))
                    = tOp.count + 1
            /\ CountN(IsRdbuffRead, log, t + 1, Len(log)) = 0
            /\ Len(tOp.buf) = tOp.count
            /\ \A i \in 1 .. BulkShort :
                (i <= tOp.count /\ tOp.addr = BulkA0) =>
                    tOp.buf[i] = Sparse(tOp.mem, Add32(tOp.addr, W(0, 4 * (i - 1))),
                                        MemInit(Add32(tOp.addr, W(0, 4 * (i - 1)))))

\* The AP writes of a call, in order.
ApWrites(log) == SelectSeq(log, LAMBDA e : e.rw = "w" /\ ~e.dp)
RdbuffReads(log) == SelectSeq(log, IsRdbuffRead)

\* C7: the AP writes of write_words(buf, addr, n) are, in this order, CSW
\* with AddrInc = Single (bits 5:4 = 1), Size = 4 bytes (bits 2:0 = 2) and
\* the top 20 bits of the CSW value just read, TAR with addr, and DRW with
\* buf[0], ..., buf[n-1]; a call that returns success has made all n + 2 of
\* them, a call that fails has made the first of them only.  SELECT is only
\* ever written for AP 0, bank 0.
C7_WriteWordsTransfers ==
    tOp.kind = "write_words" =>
        LET w == ApWrites(tOp.log)
            rd == RdbuffReads(tOp.log)
        IN  /\ tOp.rc = success => Len(w) = tOp.count + 2
            /\ Len(w) <= tOp.count + 2
            /\ Len(w) > 0 => Len(rd) = 1
            /\ \A i \in 1 .. Len(w) :
                /\ w[i].n = 1
                /\ i < Len(w) => w[i].ack = AckOK
                /\ i = 1 =>
                    /\ IsApWrite(w[i], MEM_AP_CSW)
                    /\ (Lo(w[i].data) \div 16) % 4 = 1
                    /\ Lo(w[i].data) % 8 = 2
                    /\ Hi(w[i].data) = Hi(rd[1].data)
                    /\ Lo(w[i].data) \div 4096 = Lo(rd[1].data) \div 4096
                /\ i = 2 => IsApWrite(w[i], MEM_AP_TAR) /\ w[i].data = tOp.addr
                /\ i > 2 => IsApWrite(w[i], MEM_AP_DRW)
                                /\ w[i].data = tOp.src[i - 2]
            /\ \A i \in 1 .. Len(tOp.log) :
                (tOp.log[i].rw = "w" /\ tOp.log[i].dp) =>
                    (tOp.log[i].addr = kRegSELECT /\ tOp.log[i].data = Zero32)

C7_Witness ==
    /\ tOp.kind = "write_words" /\ tOp.rc = success /\ tOp.count = BulkLong
    /\ Len(ApWrites(tOp.log)) = BulkLong + 2
    /\ ApWrites(tOp.log)[1].data = W(Hi(CswInit), 12306)
    /\ ApWrites(tOp.log)[BulkLong + 2].data = W(Hi(BulkSeed2), BulkLong)

\* C9: write_words(buf, a, n) followed by read_words(a, buf2, n), both
\* returning success, leaves buf2 equal to buf.
C9_BulkRoundTrip ==
    (tOp.kind = "read_words" /\ tOp.prev.kind = "write_words"
        /\ tOp.prev.addr = tOp.addr /\ tOp.prev.count = tOp.count
        /\ tOp.prev.rc = success /\ tOp.rc = success) =>
        tOp.buf = tOp.prev.src

\* The round trip does hold for transfers that do not run over a whole
\* 1 KiB block, and for every transfer when the MEM-AP carries into bit 10.
C9_RoundTripWithinBlock ==
    (tOp.kind = "read_words" /\ tOp.prev.kind = "write_words"
        /\ tOp.prev.addr = tOp.addr /\ tOp.prev.count = tOp.count
        /\ tOp.prev.rc = success /\ tOp.rc = success
        /\ (tOp.count <= BulkShort \/ ~tTgt.wraps)) =>
        tOp.buf = tOp.prev.src

----------------------------------------------------------------------------
(* The semihosting host (swdhost): the loop of host_main and handle_halt.  *)

DFSR_HALTED      == W(0, 1)
DFSR_BKPT        == W(0, 2)
DFSR_reason_mask == W(0, 31)
Register_R0 == 0
Register_R1 == 1
Register_PC == 15
kHostRetries == 100
BKPT_AB == 48811                    \* 0xBEAB
SYS_WRITEC == 3
SYS_WRITE0 == 4
SYS_READC  == 7
\* Words of a string the model follows write_str through.
MaxStrWords == 3

\* What the host did outside the wire, with the number of SWD transactions
\* it had made by then.
HostEvent(d, ev, ch) == [d EXCEPT !.io = Append(@, [ev |-> ev, ch |-> ch,
                                                    at |-> d.txn])]

\* write_char: putchar(parameter).
write_char(d, parameter) ==
    [HostEvent(d, "putchar", Lo(parameter) % 256) EXCEPT !.rc = success]

\* The loop of write_str: the bytes of str_word from its low end, the next
\* word when bytes_left_in_word reaches 0, until a zero byte.
RECURSIVE write_str_loop(_, _, _, _, _)
write_str_loop(d, str_word, bytes_left_in_word, str_word_addr, fuel) ==
    IF bytes_left_in_word = 0
    THEN IF fuel = 0 THEN [d EXCEPT !.rc = no_return]
         ELSE Check(read_word(d, Add32(str_word_addr, W(0, 4))), LAMBDA r :
              write_str_loop(r, r.out, 4, Add32(str_word_addr, W(0, 4)),
                             fuel - 1))
    ELSE IF Lo(str_word) % 256 = 0 THEN [d EXCEPT !.rc = success]
    ELSE write_str_loop(HostEvent(d, "putchar", Lo(str_word) % 256),
                        Shr32(str_word, 8), bytes_left_in_word - 1,
                        str_word_addr, fuel)

\* write_str
write_str(d, parameter) ==
    Check(read_word(d, W(Hi(parameter), (Lo(parameter) \div 4) * 4)),
          LAMBDA r :
    write_str_loop(r, r.out, 4 - (Lo(parameter) % 4),
                   W(Hi(parameter), (Lo(parameter) \div 4) * 4),
                   MaxStrWords))

\* read_char: c = getchar(); write_register(R0, c).
read_char(d, parameter) ==
    write_register(HostEvent(d, "getchar", 0), Register_R0, d.stdin)

\* The end of handle_halt with its two steps exchanged.
semihost_finish_ResumeFirst(d, pc) ==
    Check(resume(d), LAMBDA r :
    CheckRetry(LAMBDA x : write_register(x, Register_PC, Add32(pc, W(0, 2))),
               r, kHostRetries))

\* The end of handle_halt: pc += 2; write_register(PC, pc); resume().
semihost_finish(d, pc) ==
    Check(CheckRetry(LAMBDA x : write_register(x, Register_PC,
                                               Add32(pc, W(0, 2))),
                     d, kHostRetries), LAMBDA r :
    resume(r))

\* The switch of handle_halt on the operation code in R0.
semihost_operation(d, operation, parameter) ==
    CASE operation = W(0, SYS_WRITEC) -> write_char(d, parameter)
      [] operation = W(0, SYS_WRITE0) -> write_str(d, parameter)
      [] operation = W(0, SYS_READC)  -> read_char(d, parameter)
      [] OTHER                        -> [d EXCEPT !.rc = failure]

\* The halfword at pc within the word that holds it.
InstrAt(pc, instr_word) ==
    IF Bit32(pc, 1) = 1 THEN Hi(instr_word) ELSE Lo(instr_word)

\* handle_halt
handle_halt(d) ==
    Check(CheckRetry(LAMBDA x : read_word(x, DFSR), d, kHostRetries),
          LAMBDA dfsr :
    IF And32(dfsr.out, DFSR_reason_mask) # DFSR_BKPT
    THEN [dfsr EXCEPT !.rc = failure]
    ELSE
    Check(CheckRetry(LAMBDA x : read_register(x, Register_PC),
                     dfsr, kHostRetries), LAMBDA pc :
    Check(CheckRetry(LAMBDA x : read_word(x, W(Hi(pc.out),
                                               (Lo(pc.out) \div 4) * 4)),
                     pc, kHostRetries), LAMBDA instr_word :
    IF InstrAt(pc.out, instr_word.out) # BKPT_AB
    THEN [instr_word EXCEPT !.rc = failure]
    ELSE
    Check(CheckRetry(LAMBDA x : read_register(x, Register_R0),
                     instr_word, kHostRetries), LAMBDA operation :
    Check(CheckRetry(LAMBDA x : read_register(x, Register_R1),
                     operation, kHostRetries), LAMBDA parameter :
    Check(semihost_operation(parameter, operation.out, parameter.out),
          LAMBDA r :
    semihost_finish(r, pc.out)))))))

\* One turn of host_main's loop: read DHCSR; handle_halt if S_HALT is set.
host_iteration(d) ==
    Check(CheckRetry(LAMBDA x : read_word(x, DHCSR), d, kHostRetries),
          LAMBDA dhcsr :
    IF Bit32(dhcsr.out, 17) = 1 THEN handle_halt(dhcsr) ELSE dhcsr)

\* The program in the target: at 0x100 a word whose high half is BKPT 0xAB
\* and whose low half is BKPT 0, at 0x104 the other way round; "Hi!" at
\* 0x20000000 and "Hello" at 0x20000008.
HostCode0 == W(0, 256)
HostCode1 == W(0, 260)
HostStr0  == W(8192, 0)
HostStr1  == W(8192, 8)
HostProgram ==
    [a \in {HostCode0, HostCode1, HostStr0, HostStr1, W(8192, 12)} |->
        CASE a = HostCode0 -> W(BKPT_AB, 48640)
          [] a = HostCode1 -> W(48640, BKPT_AB)
          [] a = HostStr0  -> W(33, 26952)
          [] a = HostStr1  -> W(27756, 25928)
          [] OTHER         -> W(0, 111)]

\* Where and why the core stops, and what R0 and R1 hold then.
HostPcs == {W(0, 258), W(0, 260), W(0, 262)}
HostReasons == {DFSR_BKPT, DFSR_HALTED}
HostCalls ==
    {[r0 |-> W(0, SYS_WRITEC), r1 |-> W(0, 65)],
     [r0 |-> W(0, SYS_WRITE0), r1 |-> HostStr0],
     [r0 |-> W(0, SYS_WRITE0), r1 |-> HostStr1],
     [r0 |-> W(0, SYS_WRITE0), r1 |-> W(8192, 1)],
     [r0 |-> W(0, SYS_READC), r1 |-> Zero32],
     [r0 |-> W(0, 5), r1 |-> Zero32]}
\* What getchar returns: a character, or EOF (-1).
StdinChars == {W(0, 10), W(65535, 65535)}
\* Transactions of a turn from which, or at which, the device misbehaves.
HostAts == {1, 9, 24, 41, 45, 49, 53, 57, 64}
HostEnvs ==
    {EnvOk} \cup [kind : {"wait_forever", "wait_once", "fault"}, at : HostAts]
MaxHostCalls == 2

NoHostOp == [kind |-> "none", rc |-> success, calls |-> 0]

HostStart(env, c) ==
    [bank |-> tHost, dev |-> tTgt, env |-> env, txn |-> 0, log |-> <<>>,
     rc |-> success, out |-> Zero32, buf |-> <<>>, polls |-> 0,
     exhausted |-> 0, io |-> <<>>, stdin |-> c]

\* The core, running, stops: on a BKPT instruction or for another reason.
\* DFSR bits stay set until written.
CoreHalts ==
    /\ ~tTgt.halted
    /\ tOp.rc = success
    /\ tOp.calls < MaxHostCalls
    /\ \E pc \in HostPcs, reason \in HostReasons, call \in HostCalls :
        /\ reason = DFSR_BKPT \/ (pc = HostCode1 /\ call.r0 = W(0, SYS_WRITEC))
        /\ tTgt' = [tTgt EXCEPT
                      !.halted = TRUE,
                      !.dfsr = Or32(@, reason),
                      !.regs = [r \in {Register_R0, Register_R1, Register_PC}
                                  |-> CASE r = Register_R0 -> call.r0
                                        [] r = Register_R1 -> call.r1
                                        [] OTHER           -> pc]]
    /\ UNCHANGED <<tHost, tOp, swdVars, dapVars, fnVars, procVars>>

\* The turn's effect on the Target object and the device, and the record of
\* the turn: the device as found and as left, the wire, stdin and stdout.
HostCommit(env, c, r) ==
    /\ tHost' = r.bank
    /\ tTgt' = r.dev
    /\ tOp' = [kind |-> "host_iteration", before |-> tTgt, after |-> r.dev,
               env |-> env, stdin |-> c, log |-> r.log, rc |-> r.rc,
               io |-> r.io, txn |-> r.txn, exhausted |-> r.exhausted,
               calls |-> tOp.calls + 1]
    /\ UNCHANGED <<swdVars, dapVars, fnVars, procVars>>

\* The device misbehaves, and stdin varies, for the calls these matter to.
HostIteration ==
    /\ tOp.rc = success
    /\ tOp.calls < MaxHostCalls
    /\ \E env \in HostEnvs, c \in StdinChars :
        /\ c = W(0, 10)
             \/ Sparse(tTgt.regs, Register_R0, Zero32) = W(0, SYS_READC)
        /\ env = EnvOk
             \/ (/\ tTgt.halted
                 /\ Sparse(tTgt.regs, Register_PC, Zero32) = HostCode1
                 /\ Sparse(tTgt.regs, Register_R1, Zero32)
                        \in {W(0, 65), HostStr0, Zero32})
        /\ HostCommit(env, c, host_iteration(HostStart(env, c)))

\* swdhost attaches to a running core with the program loaded.
HostInit ==
    /\ tHost = -1
    /\ tTgt = [select |-> <<>>, rdbuff |-> Zero32, csw |-> CswInit,
               wraps |-> TRUE,
               tar |-> Zero32, mem |-> HostProgram, busy |-> 0,
               halted |-> FALSE, debugen |-> TRUE, regrdy |-> FALSE,
               regs |-> <<>>, dcrdr |-> Zero32, demcr |-> Zero32,
               dfsr |-> Zero32]
    /\ tOp = NoHostOp

HostNext == CoreHalts \/ HostIteration

\* The core state a turn of the loop found (before) and left (after).
PcBefore == Sparse(tOp.before.regs, Register_PC, RegInit(Register_PC))
R0Before == Sparse(tOp.before.regs, Register_R0, RegInit(Register_R0))
R1Before == Sparse(tOp.before.regs, Register_R1, RegInit(Register_R1))
SemihostingHalt ==
    /\ tOp.before.halted
    /\ And32(tOp.before.dfsr, DFSR_reason_mask) = DFSR_BKPT
    /\ InstrAt(PcBefore, BusRead(tOp.before,
                                 W(Hi(PcBefore), (Lo(PcBefore) \div 4) * 4)))
            = BKPT_AB
    /\ R0Before \in {W(0, SYS_WRITEC), W(0, SYS_WRITE0), W(0, SYS_READC)}

\* The address the latest TAR write before log[i] put in TAR.
RECURSIVE TarBefore(_, _)
TarBefore(log, i) ==
    IF i <= 1 THEN Zero32
    ELSE IF IsApWrite(log[i - 1], MEM_AP_TAR) THEN log[i - 1].data
    ELSE TarBefore(log, i - 1)
\* Where in the log the word v is written to address a.
WritesAt(log, a, v) ==
    {i \in 1 .. Len(log) :
        /\ IsApWrite(log[i], MEM_AP_DRW) /\ log[i].data = v
        /\ TarBefore(log, i) = a}
AckedWritesAt(log, a, v) == {i \in WritesAt(log, a, v) : log[i].ack = AckOK}
\* How many transactions precede log[i].
TxnsBefore(log, i) == CountN(LAMBDA e : TRUE, log, 1, i - 1)
MinOf(S) == CHOOSE x \in S : \A y \in S : x <= y

ResumeWrites == WritesAt(tOp.log, DHCSR, Or32(DHCSR_DBGKEY, W(0, 1)))
PcValueWrites ==
    AckedWritesAt(tOp.log, DCRDR, Add32(PcBefore, W(0, 2)))
PcTransfers == AckedWritesAt(tOp.log, DCRSR, W(1, Register_PC))
R0Transfers == AckedWritesAt(tOp.log, DCRSR, W(1, Register_R0))

\* The operation asked for in R0 was carried out before the transaction
\* log[i].
OperationDoneBefore(i) ==
    /\ \A k \in 1 .. Len(tOp.io) : tOp.io[k].at <= TxnsBefore(tOp.log, i)
    /\ R0Before = W(0, SYS_WRITEC) =>
            tOp.io = <<[ev |-> "putchar", ch |-> Lo(R1Before) % 256,
                        at |-> tOp.io[1].at]>>
    /\ (R0Before = W(0, SYS_WRITE0) /\ R1Before = HostStr0) =>
            /\ Len(tOp.io) = 3
            /\ tOp.io[1].ch = 72 /\ tOp.io[2].ch = 105 /\ tOp.io[3].ch = 33
    /\ R0Before = W(0, SYS_READC) =>
            /\ Len(tOp.io) = 1 /\ tOp.io[1].ev = "getchar"
            /\ \E j \in R0Transfers : j < i
            /\ Sparse(tOp.after.regs, Register_R0, Zero32) = tOp.stdin

\* C30: on a halt at BKPT 0xAB with operation 3, 4 or 7 in R0 the host
\* carries out the operation, then writes PC + 2 to PC, then resumes the
\* core, in that order; and whenever the host writes the resume word to
\* DHCSR, the halt was such a halt, the operation was done and PC has been
\* moved on by exactly 2.
C30_SemihostingOrder ==
    tOp.kind = "host_iteration" =>
        /\ ResumeWrites # {} =>
            /\ SemihostingHalt
            /\ PcValueWrites # {} /\ PcTransfers # {}
            /\ OperationDoneBefore(MinOf(PcValueWrites))
            /\ \A i \in ResumeWrites :
                    \E j \in PcTransfers, k \in PcValueWrites : k < j /\ j < i
            /\ Sparse(tOp.after.regs, Register_PC, Zero32)
                    = Add32(PcBefore, W(0, 2))
        /\ (SemihostingHalt /\ tOp.env = EnvOk) =>
            /\ tOp.rc = success
            /\ ResumeWrites # {}
            /\ ~tOp.after.halted

\* A SYS_READC call at 0x104 was served: R0 holds the character, PC is
\* 0x106 and the core runs.
C30_Witness ==
    /\ tOp.kind = "host_iteration" /\ tOp.rc = success
    /\ SemihostingHalt /\ R0Before = W(0, SYS_READC)
    /\ PcBefore = HostCode1
    /\ Sparse(tOp.after.regs, Register_PC, Zero32) = W(0, 262)
    /\ Sparse(tOp.after.regs, Register_R0, Zero32) = tOp.stdin
    /\ ~tOp.after.halted

\* Byte k (0 the lowest) of a word, and the byte of target memory at an
\* address (little-endian).
ByteOf(word, k) ==
    CASE k = 0 -> Lo(word) % 256
      [] k = 1 -> Lo(word) \div 256
      [] k = 2 -> Hi(word) % 256
      [] OTHER -> Hi(word) \div 256
TargetByte(dev, a) ==
    ByteOf(BusRead(dev, W(Hi(a), (Lo(a) \div 4) * 4)), Lo(a) % 4)
\* The bytes at a, a + 1, ... up to the first zero byte.
RECURSIVE CString(_, _, _)
CString(dev, a, fuel) ==
    IF fuel = 0 \/ TargetByte(dev, a) = 0 THEN <<>>
    ELSE <<TargetByte(dev, a)>> \o CString(dev, Add32(a, W(0, 1)), fuel - 1)
\* The characters a turn gave to putchar, in order.
Putchars(io) ==
    LET outs == SelectSeq(io, LAMBDA e : e.ev = "putchar")
    IN  [i \in 1 .. Len(outs) |-> outs[i].ch]
Write0Served ==
    /\ tOp.kind = "host_iteration" /\ tOp.rc = success
    /\ SemihostingHalt /\ R0Before = W(0, SYS_WRITE0)

\* C36: for any pointer in R1, word-aligned or not, SYS_WRITE0 outputs
\* exactly the bytes at R1, R1 + 1, ... up to the first zero byte, in order,
\* and reads the target by word-aligned 32-bit accesses only.
C36_Write0OutputsString ==
    Write0Served =>
        /\ Putchars(tOp.io) = CString(tOp.before, R1Before, 4 * MaxStrWords)
        /\ \A i \in 1 .. Len(tOp.log) :
                IsApWrite(tOp.log[i], MEM_AP_TAR) => Lo(tOp.log[i].data) % 4 = 0

\* What write_str does: its reads are word-aligned, and for a word-aligned
\* pointer the output is the string; for a pointer k bytes into a word it
\* starts at the word's first byte and moves to the next word 4 - k bytes on.
C36_Write0AlignedOnly ==
    Write0Served =>
        /\ Lo(R1Before) % 4 = 0 =>
                Putchars(tOp.io) = CString(tOp.before, R1Before, 4 * MaxStrWords)
        /\ \A i \in 1 .. Len(tOp.log) :
                IsApWrite(tOp.log[i], MEM_AP_TAR) => Lo(tOp.log[i].data) % 4 = 0

----------------------------------------------------------------------------
(* Helper functions: swd_parity, rptr<T> arithmetic and comparison,        *)
(* fix_lpc_checksum.                                                       *)

NoFnOp == [kind |-> "none"]
FnInit == fnOp = NoFnOp

\* No tool process is being followed.
ProcIdle == proc = [tool |-> "none"]

\* Halves the parity inputs are built from.
ParityHalves ==
    {0, 1, 2, 3, 255, 256, 4660, 21845, 32768, 43690, 65534, 65535}

FnSwdParity ==
    /\ \E h \in ParityHalves, l \in ParityHalves :
        fnOp' = [kind |-> "swd_parity", x |-> W(h, l),
                 out |-> swd_parity(W(h, l))]
    /\ UNCHANGED <<swdVars, dapVars, tgtVars, procVars>>

\* The number of one bits of a 16-bit value.
RECURSIVE PopCount16(_)
PopCount16(h) == IF h = 0 THEN 0 ELSE (h % 2) + PopCount16(h \div 2)
PopCount32(x) == PopCount16(Hi(x)) + PopCount16(Lo(x))

\* ~x, -x, x - y and x * n (n a small natural) modulo 2^32.
Not32(x) == W(65535 - Hi(x), 65535 - Lo(x))
Neg32(x) == Add32(Not32(x), W(0, 1))
Sub32(x, y) == Add32(x, Neg32(y))
RECURSIVE Mul32(_, _)
Mul32(x, n) == IF n = 0 THEN Zero32 ELSE Add32(x, Mul32(x, n - 1))

\* An int converted to size_t, as the usual arithmetic conversions do for
\* `d * sizeof(type)`: negative values wrap.  Only the low 32 bits are kept,
\* since the result is truncated to uint32_t by the rptr constructor.
ToSizeT(d) == IF d >= 0 THEN W(d \div Half, d % Half)
              ELSE Neg32(W((-d) \div Half, (-d) % Half))

\* rptr with an operator+ that forgets sizeof(type).
rptr_plus_Unscaled(bits, d, size) == Add32(bits, ToSizeT(d))

\* rptr_base::operator+ and operator-: self(_bits + d * sizeof(type)),
\* self(_bits - d * sizeof(type)).
rptr_plus(bits, d, size)  == Add32(bits, Mul32(ToSizeT(d), size))
rptr_minus(bits, d, size) == Sub32(bits, Mul32(ToSizeT(d), size))

\* Unsigned comparison of two 32-bit patterns.
Lt32(x, y) == Hi(x) < Hi(y) \/ (Hi(x) = Hi(y) /\ Lo(x) < Lo(y))

\* rptr_base's comparison operators, each as it is written.
rptr_eq(a, b) == a = b
rptr_ne(a, b) == a # b
rptr_lt(a, b) == Lt32(a, b)
rptr_gt(a, b) == Lt32(a, b)             \* return _bits < other._bits;
rptr_ge(a, b) == ~Lt32(a, b)
rptr_le(a, b) == ~Lt32(b, a)

\* Addresses, element sizes (uint8_t, halfword_t, word_t) and offsets.
RptrBits ==
    {Zero32, W(0, 4), W(8192, 0), W(8192, 65534), W(65535, 65532),
     W(65535, 65535)}
RptrSizes == {1, 2, 4}
RptrOffsets == -3 .. 3 \cup {-16384, 16384}

FnRptrPlus ==
    /\ \E a \in RptrBits, d \in RptrOffsets, size \in RptrSizes :
        fnOp' = [kind |-> "rptr_plus", bits |-> a, d |-> d, size |-> size,
                 out |-> rptr_plus(a, d, size)]
    /\ UNCHANGED <<swdVars, dapVars, tgtVars, procVars>>

FnRptrMinus ==
    /\ \E a \in RptrBits, d \in RptrOffsets, size \in RptrSizes :
        fnOp' = [kind |-> "rptr_minus", bits |-> a, d |-> d, size |-> size,
                 out |-> rptr_minus(a, d, size)]
    /\ UNCHANGED <<swdVars, dapVars, tgtVars, procVars>>

FnRptrCompare ==
    /\ \E a \in RptrBits, b \in RptrBits :
        fnOp' = [kind |-> "rptr_compare", a |-> a, b |-> b,
                 eq |-> rptr_eq(a, b), ne |-> rptr_ne(a, b),
                 lt |-> rptr_lt(a, b), gt |-> rptr_gt(a, b),
                 ge |-> rptr_ge(a, b), le |-> rptr_le(a, b)]
    /\ UNCHANGED <<swdVars, dapVars, tgtVars, procVars>>

\* fix_lpc_checksum on a program of whole words (flash_from_file refuses
\* any other length).  The length test lets a program of exactly
\* checked_vectors words through, and program_words[checked_vectors] is then
\* one word past the end of the buffer: the store is undefined behaviour,
\* after which the program either goes on with its seven words as they were
\* or does not reach the flasher (ub).
checked_vectors == 7

RECURSIVE SumWords(_, _)
SumWords(program_words, n) ==
    IF n = 0 THEN Zero32
    ELSE Add32(SumWords(program_words, n - 1), program_words[n])

fix_lpc_checksum(program, ub) ==
    IF Len(program) < checked_vectors
    THEN [program |-> program, status |-> "too_short"]
    ELSE IF Len(program) = checked_vectors
    THEN [program |-> program, status |-> ub]
    ELSE [program |-> [program EXCEPT ![checked_vectors + 1] =
                          Sub32(Zero32, SumWords(program, checked_vectors))],
          status |-> "fixed"]

\* Programs of 0 to MaxProgramWords words.
MaxProgramWords == 9
ProgramSeeds == {Zero32, W(4096, 513), W(32768, 0), W(65535, 65535)}
ProgramOf(seed, n) ==
    [i \in 1 .. n |-> Add32(seed, W((i * 4099) % Half, (i * i * 257) % Half))]
UbOutcomes == {"overrun", "crash"}

FnFixLpcChecksum ==
    /\ \E n \in 0 .. MaxProgramWords, seed \in ProgramSeeds, ub \in UbOutcomes :
        LET r == fix_lpc_checksum(ProgramOf(seed, n), ub)
        IN  fnOp' = [kind |-> "fix_lpc_checksum", src |-> ProgramOf(seed, n),
                     out |-> r.program, status |-> r.status]
    /\ UNCHANGED <<swdVars, dapVars, tgtVars, procVars>>

\* program_flash: 256-byte blocks of 4-byte words.
words_per_block == 64
block_count(word_count) ==
    (word_count + words_per_block - 1) \div words_per_block
\* std::max(word_count - block_offset, words_per_block)
current_block_words(word_count, block_offset) ==
    IF word_count - block_offset > words_per_block
    THEN word_count - block_offset
    ELSE words_per_block
\* The write_words calls of program_flash's loop, one per block, each with
\* the first host word and the number of words it copies to ram_buffer.
\* A Check that fails ends the loop: failAfter blocks were copied by then.
program_flash(word_count, failAfter) ==
    LET done == IF failAfter < block_count(word_count) THEN failAfter
                ELSE block_count(word_count)
    IN  [copies |-> [block \in 1 .. done |->
                        [block_offset |-> (block - 1) * words_per_block,
                         words |-> current_block_words(
                                      word_count,
                                      (block - 1) * words_per_block)]],
         rc |-> IF failAfter < block_count(word_count) THEN failure
                ELSE success]

\* Program sizes in words: none, less than a block, one block exactly, a
\* block and a bit, several blocks.
FlashWordCounts == {0, 1, 8, 63, 64, 65, 128, 130, 200}
\* Blocks after which a target call may fail; MaxBlocks is no failure.
MaxBlocks == 4

FnProgramFlash ==
    /\ \E word_count \in FlashWordCounts, failAfter \in 0 .. MaxBlocks :
        LET r == program_flash(word_count, failAfter)
        IN  fnOp' = [kind |-> "program_flash", word_count |-> word_count,
                     copies |-> r.copies, rc |-> r.rc]
    /\ UNCHANGED <<swdVars, dapVars, tgtVars, procVars>>

FnNext ==
    \/ FnSwdParity \/ FnRptrPlus \/ FnRptrMinus \/ FnRptrCompare
    \/ FnFixLpcChecksum \/ FnProgramFlash

\* C26: for every 32-bit value x, swd_parity(x) is popcount(x) mod 2.
C26_ParityIsPopcount ==
    fnOp.kind = "swd_parity" => fnOp.out = PopCount32(fnOp.x) % 2

\* A word with an odd number of ones, all of them in its top half.
C26_Witness ==
    /\ fnOp.kind = "swd_parity" /\ fnOp.x = W(32768, 0) /\ fnOp.out = 1

\* a + delta modulo 2^32, for an integer delta of either sign.
Offset32(a, delta) ==
    W((Hi(a) + ((Lo(a) + delta) \div Half)) % Half, (Lo(a) + delta) % Half)

\* C27: rptr<T>(a) + k has the bits a + k * sizeof(T) and rptr<T>(a) - k the
\* bits a - k * sizeof(T), both modulo 2^32, for k of either sign.
C27_PointerArithmetic ==
    /\ fnOp.kind = "rptr_plus" =>
            fnOp.out = Offset32(fnOp.bits, fnOp.d * fnOp.size)
    /\ fnOp.kind = "rptr_minus" =>
            fnOp.out = Offset32(fnOp.bits, -(fnOp.d * fnOp.size))

\* rptr<word_t>(0xFFFFFFFC) + 2 wraps to 0x00000004.
C27_Witness ==
    /\ fnOp.kind = "rptr_plus" /\ fnOp.bits = W(65535, 65532)
    /\ fnOp.d = 2 /\ fnOp.size = 4 /\ fnOp.out = W(0, 4)

\* C28: each of the six comparison operators of two remote pointers agrees
\* with the unsigned comparison of their 32-bit patterns.
C28_ComparisonsByBits ==
    fnOp.kind = "rptr_compare" =>
        /\ fnOp.eq = (fnOp.a = fnOp.b)
        /\ fnOp.ne = (fnOp.a # fnOp.b)
        /\ fnOp.lt = Lt32(fnOp.a, fnOp.b)
        /\ fnOp.gt = Lt32(fnOp.b, fnOp.a)
        /\ fnOp.le = (Lt32(fnOp.a, fnOp.b) \/ fnOp.a = fnOp.b)
        /\ fnOp.ge = (Lt32(fnOp.b, fnOp.a) \/ fnOp.a = fnOp.b)

\* What the code gives: five operators compare by bit pattern, and a > b is
\* whatever a < b is.
C28_GreaterIsLessAsCoded ==
    fnOp.kind = "rptr_compare" =>
        /\ fnOp.eq = (fnOp.a = fnOp.b)
        /\ fnOp.ne = (fnOp.a # fnOp.b)
        /\ fnOp.lt = Lt32(fnOp.a, fnOp.b)
        /\ fnOp.gt = fnOp.lt
        /\ fnOp.le = (Lt32(fnOp.a, fnOp.b) \/ fnOp.a = fnOp.b)
        /\ fnOp.ge = (Lt32(fnOp.b, fnOp.a) \/ fnOp.a = fnOp.b)

\* The sum of the first n words as an integer computation on the halves.
RECURSIVE SumHalves(_, _, _)
SumHalves(program, n, half) ==
    IF n = 0 THEN 0 ELSE SumHalves(program, n - 1, half) + program[n][half]
SumMod32(program, n) ==
    W((SumHalves(program, n, 1) + (SumHalves(program, n, 2) \div Half)) % Half,
      SumHalves(program, n, 2) % Half)

\* C29: with fix_lpc_checksum set, the program handed to the flasher has
\* words 0..7 summing to 0 modulo 2^32 (word 7 is minus the sum of words
\* 0..6), and every other word is as it was read from the file.
C29_ChecksumFixed ==
    fnOp.kind = "fix_lpc_checksum" =>
        /\ fnOp.status = "fixed"
        /\ Len(fnOp.out) = Len(fnOp.src)
        /\ Len(fnOp.out) > checked_vectors
        /\ SumMod32(fnOp.out, checked_vectors + 1) = Zero32
        /\ \A i \in 1 .. Len(fnOp.src) :
                i # checked_vectors + 1 => fnOp.out[i] = fnOp.src[i]

\* The checksum is in place in every program of eight words or more; a
\* shorter program is handed on as it was read, if at all.
C29_FixedWhenEightWords ==
    fnOp.kind = "fix_lpc_checksum" =>
        IF Len(fnOp.src) > checked_vectors
        THEN /\ fnOp.status = "fixed"
             /\ Len(fnOp.out) = Len(fnOp.src)
             /\ SumMod32(fnOp.out, checked_vectors + 1) = Zero32
             /\ \A i \in 1 .. Len(fnOp.src) :
                    i # checked_vectors + 1 => fnOp.out[i] = fnOp.src[i]
        ELSE fnOp.out = fnOp.src /\ fnOp.status # "fixed"

\* C39: fix_lpc_checksum writes inside the program buffer only: word 7 is
\* stored only when the program has at least 8 words (32 bytes), and any
\* shorter program is left as it was, with no store at all.
C39_StoresInsideBuffer ==
    fnOp.kind = "fix_lpc_checksum" =>
        /\ fnOp.status \notin UbOutcomes
        /\ fnOp.status = "fixed" => Len(fnOp.src) > checked_vectors
        /\ Len(fnOp.src) <= checked_vectors =>
                fnOp.status = "too_short" /\ fnOp.out = fnOp.src

\* What the function does: the length test lets a program of exactly seven
\* words through, and the store to program_words[7] then falls past the end
\* of the buffer; every other length is handled inside the buffer.
C39_OverrunAtSevenWords ==
    fnOp.kind = "fix_lpc_checksum" =>
        /\ fnOp.status \in UbOutcomes <=> Len(fnOp.src) = checked_vectors
        /\ fnOp.status = "fixed" <=> Len(fnOp.src) > checked_vectors
        /\ Len(fnOp.src) < checked_vectors =>
                fnOp.status = "too_short" /\ fnOp.out = fnOp.src
        /\ \A i \in 1 .. Len(fnOp.src) :
                i # checked_vectors + 1 => fnOp.out[i] = fnOp.src[i]

\* C40: for every block, the number of words program_flash copies to the
\* RAM staging buffer is at most words_per_block (64) and at most
\* word_count - block_offset: the copy reads no host word at index
\* word_count or beyond and writes nothing past the 256-byte buffer.
C40_BlockCopyBounded ==
    fnOp.kind = "program_flash" =>
        \A b \in 1 .. Len(fnOp.copies) :
            /\ fnOp.copies[b].words <= words_per_block
            /\ fnOp.copies[b].words
                    <= fnOp.word_count - fnOp.copies[b].block_offset

\* What the loop does: the block's count is the larger of the two, so only
\* the last block of a program that is a whole number of blocks is copied
\* with a count within both limits.
C40_CopiesTheLargerCount ==
    fnOp.kind = "program_flash" =>
        \A b \in 1 .. Len(fnOp.copies) :
            LET left == fnOp.word_count - fnOp.copies[b].block_offset
            IN  /\ left > 0
                /\ fnOp.copies[b].words >= words_per_block
                /\ fnOp.copies[b].words >= left
                /\ fnOp.copies[b].words \in {words_per_block, left}

----------------------------------------------------------------------------
(* Tool processes: swddude's error_main, and swdhost's main, error_main,   *)
(* host_main and SIGINT handler with the MPSSE object error_main owns.     *)

\* The USB resources of a run: the libusb context, the device handle from
\* libusb_open_device_with_vid_pid, the FTDI context set up by ftdi_init and
\* the device ftdi_usb_open_dev opens inside it.
UsbResources == {"libusb", "handle", "ftdi", "ftdi_dev"}
NoUsb == [state |-> [r \in UsbResources |-> "never"], bad |-> {}]

Acquire(u, r) == [u EXCEPT !.state[r] = "held"]
\* A release or a use of a resource that is not held is recorded in bad.
Release(u, r) ==
    IF u.state[r] = "held" THEN [u EXCEPT !.state[r] = "released"]
    ELSE [u EXCEPT !.bad = @ \cup {<<"release", r, u.state[r]>>}]
Use(u, r) ==
    IF u.state[r] = "held" THEN u
    ELSE [u EXCEPT !.bad = @ \cup {<<"use", r, u.state[r]>>}]

\* libftdi calls on the context: ftdi_set_bitmode uses it, ftdi_usb_close
\* closes the device if one is open, ftdi_deinit closes the device and
\* releases the context.
ftdi_set_bitmode(u) == Use(u, "ftdi")
ftdi_usb_close(u) ==
    IF u.state["ftdi_dev"] = "held" THEN Release(Use(u, "ftdi"), "ftdi_dev")
    ELSE Use(u, "ftdi")
ftdi_deinit(u) ==
    IF u.state["ftdi_dev"] = "held" THEN Release(Release(u, "ftdi_dev"), "ftdi")
    ELSE Release(u, "ftdi")

\* The steps of opening the adapter, in order; a run fails at one of them or
\* at none.
OpenSteps ==
    <<"libusb_init", "ftdi_init", "libusb_open", "get_device",
      "set_interface", "usb_open_dev", "usb_reset", "read_chipid">>
StepNo(step) == CHOOSE i \in 1 .. Len(OpenSteps) : OpenSteps[i] = step
OpenFailures == {OpenSteps[i] : i \in 1 .. Len(OpenSteps)} \cup {"none"}
Passed(f, step) ==
    f \notin {OpenSteps[i] : i \in 1 .. Len(OpenSteps)}
        \/ StepNo(step) < StepNo(f)
\* What is held when the run has failed at f, or passed every step.
UsbAcquired(f) ==
    [state |-> [r \in UsbResources |->
                    IF Passed(f, CASE r = "libusb"   -> "libusb_init"
                                   [] r = "ftdi"     -> "ftdi_init"
                                   [] r = "handle"   -> "libusb_open"
                                   [] r = "ftdi_dev" -> "usb_open_dev")
                    THEN "held" ELSE "never"],
     bad |-> {}]

\* The cleanup labels of MPSSE::open, from the last to the first.
mpsse_ftdi_init_failed(o) ==
    [o EXCEPT !.usb = Release(@, "libusb"), !.libusb = FALSE]
mpsse_libusb_open_failed(o) ==
    mpsse_ftdi_init_failed([o EXCEPT !.usb = ftdi_deinit(@)])
mpsse_get_failed(o) ==
    mpsse_libusb_open_failed([o EXCEPT !.usb = Release(@, "handle"),
                                       !.handle = FALSE])
mpsse_read_failed(o, closeFails) ==
    IF closeFails THEN o
    ELSE mpsse_get_failed([o EXCEPT !.usb = ftdi_usb_close(@)])

\* MPSSE::MPSSE: _libusb(NULL), _handle(NULL); _ftdi is not initialised.
mpsse_new == [libusb |-> FALSE, handle |-> FALSE, usb |-> NoUsb, rc |-> success]

\* MPSSE::open failing at f (or not at all).
mpsse_open(o, f, closeFails) ==
    CASE f = "none" ->
            [libusb |-> TRUE, handle |-> TRUE, usb |-> UsbAcquired(f),
             rc |-> success]
      [] f = "libusb_init" -> [o EXCEPT !.rc = failure]
      [] f = "ftdi_init" ->
            mpsse_ftdi_init_failed(
                [libusb |-> TRUE, handle |-> FALSE, usb |-> UsbAcquired(f),
                 rc |-> failure])
      [] f = "libusb_open" ->
            mpsse_libusb_open_failed(
                [libusb |-> TRUE, handle |-> FALSE, usb |-> UsbAcquired(f),
                 rc |-> failure])
      [] f \in {"get_device", "set_interface", "usb_open_dev"} ->
            mpsse_get_failed(
                [libusb |-> TRUE, handle |-> TRUE, usb |-> UsbAcquired(f),
                 rc |-> failure])
      [] OTHER ->
            mpsse_read_failed(
                [libusb |-> TRUE, handle |-> TRUE, usb |-> UsbAcquired(f),
                 rc |-> failure], closeFails)

\* What the destructor's first ftdi call does with a context that was
\* never initialised: it returns, or the process dies in it.
DtorOutcomes == {"returns", "crash"}

\* MPSSE::~MPSSE.  The three ftdi calls are made whatever _ftdi holds; the
\* two libusb calls are guarded by their pointers.
mpsse_destroy(o, ub) ==
    IF o.usb.state["ftdi"] = "never" /\ ub = "crash"
    THEN [o EXCEPT !.usb = ftdi_set_bitmode(@), !.rc = "crashed"]
    ELSE [o EXCEPT !.usb =
            (LET u3 == IF o.handle
                       THEN Release(ftdi_usb_close(ftdi_set_bitmode(@)),
                                    "handle")
                       ELSE ftdi_usb_close(ftdi_set_bitmode(@))
             IN  IF o.libusb THEN Release(ftdi_deinit(u3), "libusb")
                 ELSE ftdi_deinit(u3))]

\* The cleanup labels of swddude's error_main, from the last to the first.
\* CheckP and CheckStringP return from the function when the call fails.
swddude_ftdi_init_failed(u) == Release(u, "libusb")
swddude_libusb_open_failed(u) == swddude_ftdi_init_failed(ftdi_deinit(u))
swddude_get_failed(u) == swddude_libusb_open_failed(Release(u, "handle"))
swddude_read_failed(u, closeFails) ==
    IF closeFails THEN u ELSE swddude_get_failed(ftdi_usb_close(u))
swddude_experiment_failed(u, bitmodeFails, closeFails) ==
    IF bitmodeFails THEN u
    ELSE swddude_read_failed(ftdi_set_bitmode(u), closeFails)

\* swddude's error_main: it fails at f while opening the adapter, or the
\* experiment runs and succeeds ("none") or fails ("experiment").
swddude_error_main(f, bitmodeFails, closeFails) ==
    CASE f \in {"none", "experiment"} ->
            swddude_experiment_failed(UsbAcquired(f), bitmodeFails, closeFails)
      [] f = "libusb_init" -> UsbAcquired(f)
      [] f = "ftdi_init" -> swddude_ftdi_init_failed(UsbAcquired(f))
      [] f = "libusb_open" -> swddude_libusb_open_failed(UsbAcquired(f))
      [] f \in {"get_device", "set_interface", "usb_open_dev"} ->
            swddude_get_failed(UsbAcquired(f))
      [] OTHER -> swddude_read_failed(UsbAcquired(f), closeFails)

\* Terminal settings: the two flags host_main changes, and everything else.
\* stored_settings is a static object, all zero until tcgetattr fills it.
ZeroTermios == [icanon |-> FALSE, echo |-> FALSE, rest |-> "zero"]
TermSettings == [icanon : {TRUE}, echo : BOOLEAN, rest : {"orig"}]
\* Turns of the semihosting loop the model follows.
MaxTurns == 2

\* The swdhost process at the start of main.
SwdhostStart(term0, local_echo, lookupOk) ==
    [tool |-> "swdhost", pc |-> "lookup", exit |-> "running",
     term0 |-> term0, term |-> term0, stored |-> ZeroTermios,
     captured |-> FALSE, switched |-> FALSE, handler |-> FALSE,
     local_echo |-> local_echo, lookupOk |-> lookupOk, turns |-> 0,
     mpsse |-> mpsse_new,
     plan |-> [f |-> "none", bitmodeFails |-> FALSE, closeFails |-> FALSE]]
\* The swddude process at the start of main.
SwddudeStart ==
    [tool |-> "swddude", pc |-> "start", exit |-> "running",
     usb |-> NoUsb,
     plan |-> [f |-> "none", bitmodeFails |-> FALSE, closeFails |-> FALSE]]

ProcInit ==
    \/ proc = SwddudeStart
    \/ \E term0 \in TermSettings, local_echo \in BOOLEAN, lookupOk \in BOOLEAN :
            proc = SwdhostStart(term0, local_echo, lookupOk)

\* swddude, from main to its return.
SwddudeRun ==
    /\ proc.tool = "swddude" /\ proc.exit = "running"
    /\ \E f \in OpenFailures \cup {"experiment"}, bitmodeFails \in BOOLEAN,
          closeFails \in BOOLEAN :
        /\ bitmodeFails => f \in {"none", "experiment"}
        /\ closeFails => f \in {"none", "experiment", "usb_reset", "read_chipid"}
        /\ (bitmodeFails /\ closeFails) = FALSE
        /\ proc' = [proc EXCEPT
                      !.pc = "done",
                      !.exit = IF f = "none" /\ ~bitmodeFails /\ ~closeFails
                               THEN "success" ELSE "error",
                      !.usb = swddude_error_main(f, bitmodeFails, closeFails),
                      !.plan = [f |-> f, bitmodeFails |-> bitmodeFails,
                                closeFails |-> closeFails]]
    /\ UNCHANGED <<swdVars, dapVars, tgtVars, fnVars>>

\* An error returned to swdhost's main: error_main's MPSSE object is
\* destroyed on the way, main prints the error stack and returns 1.
SwdhostReturn(p, ub) ==
    [p EXCEPT !.mpsse = mpsse_destroy(@, ub),
              !.exit = IF mpsse_destroy(p.mpsse, ub).rc = "crashed"
                       THEN "crashed" ELSE "error"]

Running(pc) ==
    proc.tool = "swdhost" /\ proc.exit = "running" /\ proc.pc = pc

\* error_main: MPSSE mpsse; Check(lookup_programmer(...)).
SwdhostLookup ==
    /\ Running("lookup")
    /\ \E ub \in DtorOutcomes :
        proc' = IF proc.lookupOk THEN [proc EXCEPT !.pc = "open"]
                ELSE SwdhostReturn(proc, ub)
    /\ UNCHANGED <<swdVars, dapVars, tgtVars, fnVars>>

\* error_main: Check(mpsse.open(config)).
SwdhostOpen ==
    /\ Running("open")
    /\ \E f \in OpenFailures, closeFails \in BOOLEAN, ub \in DtorOutcomes :
        /\ closeFails => f \in {"usb_reset", "read_chipid"}
        /\ proc' =
            IF f = "none"
            THEN [proc EXCEPT !.pc = "sigaction",
                              !.mpsse = mpsse_open(@, f, closeFails)]
            ELSE SwdhostReturn(
                    [proc EXCEPT !.mpsse = mpsse_open(@, f, closeFails),
                                 !.plan = [f |-> f, bitmodeFails |-> FALSE,
                                           closeFails |-> closeFails]], ub)
    /\ UNCHANGED <<swdVars, dapVars, tgtVars, fnVars>>

\* host_main: CheckP(sigemptyset(...)); CheckP(sigaction(SIGINT, ...)).
SwdhostSigaction ==
    /\ Running("sigaction")
    /\ \E ok \in BOOLEAN :
        proc' = IF ok THEN [proc EXCEPT !.pc = "tcgetattr", !.handler = TRUE]
                ELSE SwdhostReturn(proc, "returns")
    /\ UNCHANGED <<swdVars, dapVars, tgtVars, fnVars>>

\* host_main: tcgetattr(0, &stored_settings).
SwdhostTcgetattr ==
    /\ Running("tcgetattr")
    /\ proc' = [proc EXCEPT !.pc = "tcsetattr", !.stored = proc.term,
                            !.captured = TRUE]
    /\ UNCHANGED <<swdVars, dapVars, tgtVars, fnVars>>

\* host_main: unbuffered = stored_settings with ICANON (and ECHO, unless
\* local-echo) cleared; tcsetattr(0, TCSANOW, &unbuffered).
SwdhostTcsetattr ==
    /\ Running("tcsetattr")
    /\ proc' = [proc EXCEPT
                  !.pc = "attach",
                  !.term = [proc.stored EXCEPT
                              !.icanon = FALSE,
                              !.echo = IF proc.local_echo THEN @ ELSE FALSE],
                  !.switched = TRUE]
    /\ UNCHANGED <<swdVars, dapVars, tgtVars, fnVars>>

\* host_main: swd.initialize ... swd.leave_reset, each under Check.
SwdhostAttach ==
    /\ Running("attach")
    /\ \E ok \in BOOLEAN :
        proc' = IF ok THEN [proc EXCEPT !.pc = "loop"]
                ELSE SwdhostReturn(proc, "returns")
    /\ UNCHANGED <<swdVars, dapVars, tgtVars, fnVars>>

\* host_main: one turn of while (true); an error of the DHCSR read or of
\* handle_halt is returned.
SwdhostTurn ==
    /\ Running("loop")
    /\ proc.turns < MaxTurns
    /\ \E ok \in BOOLEAN :
        proc' = IF ok THEN [proc EXCEPT !.turns = @ + 1]
                ELSE SwdhostReturn(proc, "returns")
    /\ UNCHANGED <<swdVars, dapVars, tgtVars, fnVars>>

\* SIGINT, at any point of the run.  With the handler installed:
\* restore_terminal(), fflush, exit(1), which destroys no automatic object.
\* Before that the default action ends the process.
SwdhostSigint ==
    /\ proc.tool = "swdhost" /\ proc.exit = "running"
    /\ proc' = IF proc.handler
               THEN [proc EXCEPT !.term = proc.stored, !.exit = "sigint"]
               ELSE [proc EXCEPT !.exit = "killed"]
    /\ UNCHANGED <<swdVars, dapVars, tgtVars, fnVars>>

ProcNext ==
    \/ SwddudeRun
    \/ SwdhostLookup \/ SwdhostOpen \/ SwdhostSigaction \/ SwdhostTcgetattr
    \/ SwdhostTcsetattr \/ SwdhostAttach \/ SwdhostTurn \/ SwdhostSigint

\* The USB resources of the process, whichever tool it is.
ProcUsb == IF proc.tool = "swdhost" THEN proc.mpsse.usb ELSE proc.usb
Ended == proc.tool # "none" /\ proc.exit # "running"
NoneHeld(u) == \A r \in UsbResources : u.state[r] # "held"

\* C31: however swdhost ends after it has switched the terminal, the
\* terminal has the settings it had before the run.
C31_TerminalRestored ==
    (Ended /\ proc.tool = "swdhost" /\ proc.switched) =>
        proc.term = proc.term0

\* As coded, the terminal is restored when SIGINT ends the run and on no
\* other way out.
C31_RestoredOnSigintOnly ==
    (Ended /\ proc.tool = "swdhost" /\ proc.switched) =>
        (proc.term = proc.term0 <=> proc.exit = "sigint")

\* C32: on every way a run ends after the USB device was opened, no USB
\* resource is still held: the FTDI device is closed and the handle
\* released.
C32_UsbReleasedOnExit ==
    (Ended /\ ProcUsb.state["handle"] # "never") => NoneHeld(ProcUsb)

\* As coded, everything is released when the run returns through its
\* cleanup and no cleanup call fails.
C32_ReleasedUnlessCleanupCut ==
    (Ended /\ ProcUsb.state["handle"] # "never") =>
        (NoneHeld(ProcUsb) <=>
            /\ proc.exit \in {"success", "error"}
            /\ ~proc.plan.bitmodeFails
            /\ ~(proc.tool = "swddude" /\ proc.plan.closeFails))

\* C37: the settings the SIGINT handler writes back are those captured
\* from the terminal before the run, never a snapshot not yet captured.
C37_HandlerRestoresCaptured ==
    (proc.tool = "swdhost" /\ proc.exit = "sigint") =>
        (proc.captured /\ proc.term = proc.term0)

\* As coded, that is so once tcgetattr has run; a SIGINT between sigaction
\* and tcgetattr writes the zero-initialised stored_settings.
C37_CapturedAfterTcgetattr ==
    (proc.tool = "swdhost" /\ proc.exit = "sigint") =>
        IF proc.pc = "tcgetattr"
        THEN ~proc.captured /\ proc.term = ZeroTermios
        ELSE proc.captured /\ proc.term = proc.term0

\* C38: across MPSSE::open and the destructor every resource acquired is
\* released exactly once, and nothing is released or used that was never
\* acquired or was released before.
C38_ReleasedExactlyOnce ==
    proc.tool = "swdhost" =>
        /\ proc.mpsse.usb.bad = {}
        /\ proc.exit = "error" => NoneHeld(proc.mpsse.usb)

\* As coded, that holds for an MPSSE object whose open succeeded, or whose
\* open returned from its cleanup at a failed ftdi_usb_close; when open
\* completes its cleanup, or is never called, the destructor's ftdi calls
\* act on a context that open released or that was never initialised.
C38_CleanWhenOpenSucceeded ==
    proc.tool = "swdhost" =>
        IF proc.pc \notin {"lookup", "open"} \/ proc.plan.closeFails
        THEN /\ proc.mpsse.usb.bad = {}
             /\ proc.exit = "error" => NoneHeld(proc.mpsse.usb)
        ELSE proc.exit \in {"error", "crashed"} => proc.mpsse.usb.bad # {}

----------------------------------------------------------------------------
Init == SwdInit /\ DapInit /\ TgtInit(FALSE, TRUE) /\ FnInit /\ ProcIdle

SpecSWD == Init /\ [][SwdNext]_vars
SpecDAP == Init /\ [][DapNext]_vars

\* The core may be running or halted when the tool attaches.
InitTarget ==
    /\ SwdInit /\ DapInit /\ FnInit /\ ProcIdle
    /\ \E h \in BOOLEAN : TgtInit(h, TRUE)
SpecTarget == InitTarget /\ [][TargetNext]_vars

\* The MEM-AP may or may not carry its auto-increment into bit 10 of TAR.
InitBulk ==
    /\ SwdInit /\ DapInit /\ FnInit /\ ProcIdle
    /\ \E w \in BOOLEAN : TgtInit(FALSE, w)
SpecBulk == InitBulk /\ [][BulkNext]_vars

\* swdhost's loop against a core that runs the program and stops now and
\* then.
InitHost == SwdInit /\ DapInit /\ FnInit /\ ProcIdle /\ HostInit
SpecHost == InitHost /\ [][HostNext]_vars

\* One run of swddude or of swdhost, as a process.
InitProc == SwdInit /\ DapInit /\ TgtInit(FALSE, TRUE) /\ FnInit /\ ProcInit
SpecProc == InitProc /\ [][ProcNext]_vars

\* The helper functions, applied to any of their inputs in any order.
InitFn == SwdInit /\ DapInit /\ TgtInit(FALSE, TRUE) /\ FnInit /\ ProcIdle
SpecFn == InitFn /\ [][FnNext]_vars

====
